---- MODULE Spec2Model ----
(***************************************************************************)
(* A model of vkhr's hair asset (src/src/vkhr/scene_graph/hair_style.cc):  *)
(* the binary codec (load / save), the generators of derived attributes,   *)
(* the strand sampler (reduce / shuffle) and the fused-buffer builders.    *)
(*                                                                         *)
(* A HairStyle object is a record with the fields of the class.  Every     *)
(* method is an operator from the object (and its arguments) to the object *)
(* after the call; the actions apply the operators to the state.           *)
(*                                                                         *)
(* Numbers.  A float is carried as an integer: in the codec it stands for  *)
(* the 32-bit pattern that is dumped to the file, in the geometry for the  *)
(* value.  A file body is a sequence of 16-bit words.                      *)
(***************************************************************************)
EXTENDS Integers, Sequences, FiniteSets, TLC

VARIABLES
    hair_style,   \* the HairStyle object the operations act on
    disk,         \* the file at the path load and save use
    pc,           \* the operation that ran last
    pre,          \* the object as it was before the operation that ran last
    saved,        \* the object as it was when save last wrote the file
    arg,          \* the argument of the operation that ran last
    out,          \* what the operation that ran last returned
    ub,           \* the operation that ran last read outside an array
    raytracer,    \* the Raytracer objects of the program, by variable
    embree,       \* the ray tracing library: its handles and their scenes
    omp           \* the parallel loop that is running, if one is

vars == <<hair_style, disk, pc, pre, saved, arg, out, ub, raytracer, embree,
          omp>>

\* The shading engine and the parallel loops, which the operations on the
\* asset alone leave as they are.
engine == <<raytracer, embree, omp>>

NoEngine ==
    /\ raytracer = <<>>
    /\ embree = <<>>
    /\ omp = <<>>

(***************************************************************************)
(* Bounds of the model.                                                    *)
(***************************************************************************)
MaxStrands == 3
MaxSegments == 2
MaxVertices == 5
MaxLen == 2
MaxCut == 2

(***************************************************************************)
(* Sequences.                                                              *)
(***************************************************************************)
Min(a, b) == IF a <= b THEN a ELSE b

Max(a, b) == IF a >= b THEN a ELSE b

RECURSIVE Sum(_)
Sum(s) == IF s = <<>> THEN 0 ELSE Head(s) + Sum(Tail(s))

RECURSIVE Flatten(_)
Flatten(ss) == IF ss = <<>> THEN <<>> ELSE Head(ss) \o Flatten(Tail(ss))

Last(s) == s[Len(s)]

Front(s) == SubSeq(s, 1, Len(s) - 1)

\* s[i] with the indices of C++ (from 0); g is what the memory outside the
\* array holds when i is out of range.
At(s, i, g) == IF i >= 0 /\ i < Len(s) THEN s[i + 1] ELSE g

\* std::vector::resize: the first n elements kept, new ones value-initialised.
Resize(s, n, zero) == [i \in 1..n |-> IF i <= Len(s) THEN s[i] ELSE zero]

ZeroVec == <<0, 0, 0>>

(***************************************************************************)
(* The object.                                                             *)
(***************************************************************************)
Bitfield(seg, ver, thi, tra, col, tan, ind, box) ==
    [has_segments |-> seg, has_vertices |-> ver, has_thickness |-> thi,
     has_transparency |-> tra, has_color |-> col, has_tangents |-> tan,
     has_indices |-> ind, has_bounding_box |-> box, future_extension |-> 0]

ZeroHeader ==
    [signature |-> <<"N", "U", "L", "L">>, strand_count |-> 0, vertex_count |-> 0,
     field |-> Bitfield(FALSE, FALSE, FALSE, FALSE, FALSE, FALSE, FALSE, FALSE),
     default_segment_count |-> 0, default_thickness |-> 0,
     default_transparency |-> 0, default_color |-> ZeroVec,
     bounding_box_min |-> ZeroVec, bounding_box_max |-> ZeroVec]

ZeroSeed == <<0, 0, 0, 0>>

\* A default-constructed object: no arrays, no error.
NewHairStyle ==
    [file_header |-> ZeroHeader, segments |-> <<>>, vertices |-> <<>>,
     thickness |-> <<>>, transparency |-> <<>>, color |-> <<>>,
     tangents |-> <<>>, indices |-> <<>>, error_state |-> "None",
     seed |-> ZeroSeed]

set_error_state(hs, error) == [hs EXCEPT !.error_state = error]

get_strand_count(hs) ==
    IF Len(hs.segments) # 0 THEN Len(hs.segments)
    ELSE hs.file_header.strand_count

get_vertex_count(hs) == Len(hs.vertices)

\* unsigned arithmetic: a negative value stands for that value plus 2^32.
get_segment_count(hs) == get_vertex_count(hs) - get_strand_count(hs)

get_default_segment_count(hs) == hs.file_header.default_segment_count

get_default_thickness(hs) == hs.file_header.default_thickness

get_default_transparency(hs) == hs.file_header.default_transparency

get_default_color(hs) == hs.file_header.default_color

set_default_thickness(hs, t) ==
    [hs EXCEPT !.file_header.default_thickness = t]

has_segments(hs) == Len(hs.segments) # 0

has_vertices(hs) == Len(hs.vertices) # 0

has_thickness(hs) == Len(hs.thickness) # 0

has_transparency(hs) == Len(hs.transparency) # 0

has_color(hs) == Len(hs.color) # 0

has_tangents(hs) == Len(hs.tangents) # 0

has_indices(hs) == Len(hs.indices) # 0

\* A check of the signature that stops one byte short.
valid_signature_short(hs) ==
    /\ hs.file_header.signature[1] = "H"
    /\ hs.file_header.signature[2] = "A"
    /\ hs.file_header.signature[3] = "I"

valid_signature(hs) ==
    /\ hs.file_header.signature[1] = "H"
    /\ hs.file_header.signature[2] = "A"
    /\ hs.file_header.signature[3] = "I"
    /\ hs.file_header.signature[4] = "R"

format_is_valid(hs) ==
    /\ has_vertices(hs)
    /\ valid_signature(hs)
    /\ has_thickness(hs) => Len(hs.thickness) = Len(hs.vertices)
    /\ has_transparency(hs) => Len(hs.transparency) = Len(hs.vertices)
    /\ has_color(hs) => Len(hs.color) = Len(hs.vertices)

update_bitfield(hs) ==
    [hs EXCEPT !.file_header.field =
        Bitfield(has_segments(hs), has_vertices(hs), has_thickness(hs),
                 has_transparency(hs), has_color(hs), has_tangents(hs),
                 has_indices(hs), @.has_bounding_box)]

\* A header completed without its vertex count.
complete_header_stale_count(hs) ==
    LET h1 == [hs EXCEPT !.file_header.signature = <<"H", "A", "I", "R">>]
        h2 == update_bitfield(h1)
    IN  [h2 EXCEPT !.file_header.strand_count = get_strand_count(h2)]

complete_header(hs) ==
    LET h1 == [hs EXCEPT !.file_header.signature = <<"H", "A", "I", "R">>]
        h2 == update_bitfield(h1)
    IN  [h2 EXCEPT !.file_header.strand_count = get_strand_count(h2),
                   !.file_header.vertex_count = get_vertex_count(h2)]

(***************************************************************************)
(* The file.  A file is its header, when it is long enough to hold one,    *)
(* and the words that follow it; each section is the flat dump of its      *)
(* elements: an unsigned short is one word, an unsigned and a float two    *)
(* words (low word first), a vec3 three floats.                            *)
(***************************************************************************)
NoFile == [exists |-> FALSE, header |-> <<>>, body |-> <<>>]

EmptyFile == [exists |-> TRUE, header |-> <<>>, body |-> <<>>]

SizeOf(type) ==
    CASE type = "u16" -> 1
      [] type = "u32" -> 2
      [] type = "f32" -> 2
      [] type = "vec3" -> 6

WordsOf(type, v) ==
    CASE type = "u16" -> <<v>>
      [] type = "u32" -> <<v % 65536, v \div 65536>>
      [] type = "f32" -> <<v % 65536, v \div 65536>>
      [] type = "vec3" -> <<v[1] % 65536, v[1] \div 65536,
                            v[2] % 65536, v[2] \div 65536,
                            v[3] % 65536, v[3] \div 65536>>

ValueOf(type, w) ==
    CASE type = "u16" -> w[1]
      [] type = "u32" -> w[1] + 65536 * w[2]
      [] type = "f32" -> w[1] + 65536 * w[2]
      [] type = "vec3" -> <<w[1] + 65536 * w[2], w[3] + 65536 * w[4],
                            w[5] + 65536 * w[6]>>

\* The bytes of a vector, and the vector a run of bytes is.
Dump(type, field) ==
    Flatten([i \in 1..Len(field) |-> WordsOf(type, field[i])])

Undump(type, words) ==
    [i \in 1..(Len(words) \div SizeOf(type)) |->
        ValueOf(type, SubSeq(words, (i - 1) * SizeOf(type) + 1,
                             i * SizeOf(type)))]

\* read_field: std::istream::read into the vector's storage.  A short file
\* fills the storage as far as it goes and fails the stream.
read_field(stream, field, type) ==
    LET need == Len(field) * SizeOf(type)
        got == Min(need, Len(stream.body) - stream.pos)
        old == Dump(type, field)
        raw == [i \in 1..need |->
                   IF i <= got THEN stream.body[stream.pos + i] ELSE old[i]]
    IN  [field |-> Undump(type, raw), pos |-> stream.pos + got,
         ok |-> got = need]

\* write_field: std::ostream::write of the vector's storage; io names the
\* section at which the device fails, if any.
write_field(stream, field, type, section) ==
    IF stream.io = section THEN [stream EXCEPT !.ok = FALSE]
    ELSE [stream EXCEPT !.body = @ \o Dump(type, field), !.ok = TRUE]

read_segments(st) ==
    IF st.hs.file_header.field.has_segments
    THEN LET r == read_field(st, Resize(st.hs.segments,
                                 st.hs.file_header.strand_count, 0), "u16")
         IN  [st EXCEPT !.hs.segments = r.field, !.pos = r.pos, !.ok = r.ok]
    ELSE [st EXCEPT !.ok = TRUE]

read_vertices(st) ==
    IF st.hs.file_header.field.has_vertices
    THEN LET r == read_field(st, Resize(st.hs.vertices,
                                 st.hs.file_header.vertex_count, ZeroVec), "vec3")
         IN  [st EXCEPT !.hs.vertices = r.field, !.pos = r.pos, !.ok = r.ok]
    ELSE [st EXCEPT !.ok = TRUE]

read_thickness(st) ==
    IF st.hs.file_header.field.has_thickness
    THEN LET r == read_field(st, Resize(st.hs.thickness,
                                 st.hs.file_header.vertex_count, 0), "f32")
         IN  [st EXCEPT !.hs.thickness = r.field, !.pos = r.pos, !.ok = r.ok]
    ELSE [st EXCEPT !.ok = TRUE]

read_transparancy(st) ==
    IF st.hs.file_header.field.has_transparency
    THEN LET r == read_field(st, Resize(st.hs.transparency,
                                 st.hs.file_header.vertex_count, 0), "f32")
         IN  [st EXCEPT !.hs.transparency = r.field, !.pos = r.pos, !.ok = r.ok]
    ELSE [st EXCEPT !.ok = TRUE]

read_color(st) ==
    IF st.hs.file_header.field.has_color
    THEN LET r == read_field(st, Resize(st.hs.color,
                                 st.hs.file_header.vertex_count, ZeroVec), "vec3")
         IN  [st EXCEPT !.hs.color = r.field, !.pos = r.pos, !.ok = r.ok]
    ELSE [st EXCEPT !.ok = TRUE]

read_tangents(st) ==
    IF st.hs.file_header.field.has_tangents
    THEN LET r == read_field(st, Resize(st.hs.tangents,
                                 st.hs.file_header.vertex_count, ZeroVec), "vec3")
         IN  [st EXCEPT !.hs.tangents = r.field, !.pos = r.pos, !.ok = r.ok]
    ELSE [st EXCEPT !.ok = TRUE]

read_indices(st) ==
    IF st.hs.file_header.field.has_indices
    THEN LET r == read_field(st, Resize(st.hs.indices,
                                 get_segment_count(st.hs) * 2, 0), "u32")
         IN  [st EXCEPT !.hs.indices = r.field, !.pos = r.pos, !.ok = r.ok]
    ELSE [st EXCEPT !.ok = TRUE]

\* load: the object after the call; the call returns error_state = None.
load(hs, file) ==
    IF ~file.exists THEN set_error_state(hs, "OpeningFile")
    ELSE IF file.header = <<>> THEN set_error_state(hs, "ReadingFileHeader")
    ELSE
    LET h0 == [hs EXCEPT !.file_header = file.header[1]]
        s0 == [hs |-> h0, body |-> file.body, pos |-> 0, ok |-> TRUE]
        s1 == read_segments(s0)
        s2 == read_vertices(s1)
        s3 == read_thickness(s2)
        s4 == read_transparancy(s3)
        s5 == read_color(s4)
        s6 == read_tangents(s5)
        s7 == read_indices(s6)
    IN  IF ~valid_signature(h0) THEN set_error_state(h0, "InvalidSignature")
        ELSE IF ~s1.ok THEN set_error_state(s1.hs, "ReadingSegments")
        ELSE IF ~s2.ok THEN set_error_state(s2.hs, "ReadingVertices")
        ELSE IF ~s3.ok THEN set_error_state(s3.hs, "ReadingThickness")
        ELSE IF ~s4.ok THEN set_error_state(s4.hs, "ReadingTransparency")
        ELSE IF ~s5.ok THEN set_error_state(s5.hs, "ReadingColor")
        ELSE IF ~s6.ok THEN set_error_state(s6.hs, "ReadingTangents")
        ELSE IF ~s7.ok THEN set_error_state(s7.hs, "ReadingIndices")
        ELSE IF ~format_is_valid(s7.hs)
             THEN set_error_state(s7.hs, "InvalidFormat")
        ELSE set_error_state(s7.hs, "None")

write_segments(st) ==
    IF st.hs.file_header.field.has_segments
    THEN write_field(st, st.hs.segments, "u16", "segments")
    ELSE [st EXCEPT !.ok = TRUE]

write_vertices(st) ==
    IF st.hs.file_header.field.has_vertices
    THEN write_field(st, st.hs.vertices, "vec3", "vertices")
    ELSE [st EXCEPT !.ok = TRUE]

write_thickness(st) ==
    IF st.hs.file_header.field.has_thickness
    THEN write_field(st, st.hs.thickness, "f32", "thickness")
    ELSE [st EXCEPT !.ok = TRUE]

write_transparancy(st) ==
    IF st.hs.file_header.field.has_transparency
    THEN write_field(st, st.hs.transparency, "f32", "transparency")
    ELSE [st EXCEPT !.ok = TRUE]

write_color(st) ==
    IF st.hs.file_header.field.has_color
    THEN write_field(st, st.hs.color, "vec3", "color")
    ELSE [st EXCEPT !.ok = TRUE]

write_tangents(st) ==
    IF st.hs.file_header.field.has_tangents
    THEN write_field(st, st.hs.tangents, "vec3", "tangents")
    ELSE [st EXCEPT !.ok = TRUE]

write_indices(st) ==
    IF st.hs.file_header.field.has_indices
    THEN write_field(st, st.hs.indices, "u32", "indices")
    ELSE [st EXCEPT !.ok = TRUE]

\* save: the object and the file after the call.  io is the step at which
\* the device fails ("none" when it does not).
save(hs, file, io) ==
    LET h0 == complete_header(hs)
        s0 == [hs |-> h0, body |-> <<>>, ok |-> TRUE, io |-> io]
        s1 == write_segments(s0)
        s2 == write_vertices(s1)
        s3 == write_thickness(s2)
        s4 == write_transparancy(s3)
        s5 == write_color(s4)
        s6 == write_tangents(s5)
        s7 == write_indices(s6)
        Written(st) == [exists |-> TRUE, header |-> <<h0.file_header>>,
                        body |-> st.body]
        Fail(st, error) == [hs |-> set_error_state(h0, error),
                            file |-> Written(st)]
    IN  IF ~format_is_valid(h0)
        THEN [hs |-> set_error_state(h0, "InvalidFormat"), file |-> file]
        ELSE IF io = "open"
        THEN [hs |-> set_error_state(h0, "OpeningFile"), file |-> file]
        ELSE IF io = "header"
        THEN [hs |-> set_error_state(h0, "WritingFileHeader"),
              file |-> EmptyFile]
        ELSE IF ~s1.ok THEN Fail(s1, "WritingSegments")
        ELSE IF ~s2.ok THEN Fail(s2, "WritingVertices")
        ELSE IF ~s3.ok THEN Fail(s3, "WritingThickness")
        ELSE IF ~s4.ok THEN Fail(s4, "WritingTransparency")
        ELSE IF ~s5.ok THEN Fail(s5, "WritingColor")
        ELSE IF ~s6.ok THEN Fail(s6, "WritingTangents")
        ELSE IF ~s7.ok THEN Fail(s7, "WritingIndices")
        ELSE Fail(s7, "None")

(***************************************************************************)
(* Geometry.  A position is a vec3 of integers.  A unit vector is carried  *)
(* as <<x, y, z, n>>, which stands for <<x, y, z>> / sqrt(n) with          *)
(* <<x, y, z>> the shortest integer vector of its direction; the           *)
(* normalized zero vector (0 / 0 in every component) is <<0, 0, 0, 0>>.    *)
(***************************************************************************)
Abs(x) == IF x < 0 THEN -x ELSE x

RECURSIVE GCD(_, _)
GCD(a, b) == IF b = 0 THEN a ELSE GCD(b, a % b)

VecSub(a, b) == <<a[1] - b[1], a[2] - b[2], a[3] - b[3]>>

\* glm::normalize: v / length(v).
normalize(v) ==
    LET g == GCD(GCD(Abs(v[1]), Abs(v[2])), Abs(v[3]))
    IN  IF g = 0 THEN <<0, 0, 0, 0>>
        ELSE <<v[1] \div g, v[2] \div g, v[3] \div g,
               (v[1] * v[1] + v[2] * v[2] + v[3] * v[3]) \div (g * g)>>

\* The segment count the loops use for a strand (strands count from 0).
strand_segment_count(hs, strand, g) ==
    IF has_segments(hs) THEN At(hs.segments, strand, g)
    ELSE get_default_segment_count(hs)

\* generate_tangents.  The loop state holds the tangents pushed so far,
\* the vertex cursor, whether a read fell outside an array, and for every
\* tangent where it came from: 0 when computed from its own segment, the
\* place (from 1) of the tangent it copies, -1 when back() read an empty
\* vector.  gv and gt are what memory outside the arrays holds.
RECURSIVE tangents_of_segments(_, _, _, _, _)
tangents_of_segments(hs, st, segment, segment_count, gv) ==
    IF segment >= segment_count THEN st
    ELSE
    LET current_vertex == At(hs.vertices, st.vertex + 0, gv)
        next_vertex == At(hs.vertices, st.vertex + 1, gv)
        tangent == VecSub(next_vertex, current_vertex)
    IN  tangents_of_segments(hs,
            [tangents |-> Append(st.tangents, normalize(tangent)),
             source |-> Append(st.source, 0),
             vertex |-> st.vertex + 1,
             ub |-> st.ub \/ st.vertex + 1 >= Len(hs.vertices)],
            segment + 1, segment_count, gv)

RECURSIVE tangents_of_strands(_, _, _, _, _)
tangents_of_strands(hs, st, strand, gv, gt) ==
    IF strand >= get_strand_count(hs) THEN st
    ELSE
    LET segment_count == strand_segment_count(hs, strand, 0)
        s1 == tangents_of_segments(hs, st, 0, segment_count, gv)
        empty == s1.tangents = <<>>
        back == IF empty THEN gt ELSE Last(s1.tangents)
    IN  tangents_of_strands(hs,
            [tangents |-> Append(s1.tangents, back),
             source |-> Append(s1.source,
                               IF empty THEN -1 ELSE Len(s1.tangents)),
             vertex |-> s1.vertex + 1,
             ub |-> s1.ub \/ empty],
            strand + 1, gv, gt)

generate_tangents_loop(hs, gv, gt) ==
    tangents_of_strands(hs,
        [tangents |-> <<>>, source |-> <<>>, vertex |-> 0, ub |-> FALSE],
        0, gv, gt)

generate_tangents(hs, gv, gt) ==
    [hs EXCEPT !.tangents = generate_tangents_loop(hs, gv, gt).tangents]

\* generate_indices.
RECURSIVE indices_of_segments(_, _, _)
indices_of_segments(st, segment, segment_count) ==
    IF segment >= segment_count THEN st
    ELSE indices_of_segments(
            [indices |-> st.indices \o <<st.vertex, st.vertex + 1>>,
             vertex |-> st.vertex + 1],
            segment + 1, segment_count)

\* A loop over the strands that does not skip a strand's last vertex.
RECURSIVE indices_of_strands_joined(_, _, _)
indices_of_strands_joined(hs, st, strand) ==
    IF strand >= get_strand_count(hs) THEN st
    ELSE indices_of_strands_joined(hs,
            indices_of_segments(st, 0, strand_segment_count(hs, strand, 0)),
            strand + 1)

RECURSIVE indices_of_strands(_, _, _)
indices_of_strands(hs, st, strand) ==
    IF strand >= get_strand_count(hs) THEN st
    ELSE
    LET s1 == indices_of_segments(st, 0, strand_segment_count(hs, strand, 0))
    IN  indices_of_strands(hs, [s1 EXCEPT !.vertex = @ + 1], strand + 1)

generate_indices_joined(hs) ==
    [hs EXCEPT !.indices =
        indices_of_strands_joined(hs, [indices |-> <<>>, vertex |-> 0],
                                  0).indices]

generate_indices(hs) ==
    [hs EXCEPT !.indices =
        indices_of_strands(hs, [indices |-> <<>>, vertex |-> 0], 0).indices]

\* generate_bounding_box: the reduction starts from the zero vector.
RECURSIVE min_aabb(_, _)
min_aabb(positions, acc) ==
    IF positions = <<>> THEN acc
    ELSE LET position == Head(positions)
         IN  min_aabb(Tail(positions),
                      <<Min(position[1], acc[1]), Min(position[2], acc[2]),
                        Min(position[3], acc[3])>>)

RECURSIVE max_aabb(_, _)
max_aabb(positions, acc) ==
    IF positions = <<>> THEN acc
    ELSE LET position == Head(positions)
         IN  max_aabb(Tail(positions),
                      <<Max(position[1], acc[1]), Max(position[2], acc[2]),
                        Max(position[3], acc[3])>>)

generate_bounding_box(hs) ==
    [hs EXCEPT !.file_header.bounding_box_min = min_aabb(hs.vertices, ZeroVec),
               !.file_header.bounding_box_max = max_aabb(hs.vertices, ZeroVec),
               !.file_header.field.has_bounding_box = TRUE]

\* get_bounding_box: the origin, the size and the volume of the stored box.
get_bounding_box(hs) ==
    LET size == VecSub(hs.file_header.bounding_box_max,
                       hs.file_header.bounding_box_min)
    IN  [origin |-> hs.file_header.bounding_box_min,
         size |-> size,
         volume |-> size[1] * size[2] * size[3]]

(***************************************************************************)
(* The fused buffers.  A thickness is carried in thousandths.              *)
(***************************************************************************)
HardcodedThickness == 42

create_position_thickness_data(hs) ==
    [i \in 1..get_vertex_count(hs) |->
        <<hs.vertices[i],
          IF has_thickness(hs) THEN At(hs.thickness, i - 1, 0)
          ELSE HardcodedThickness>>]

create_tangent_transparency_data(hs, gt) ==
    [i \in 1..get_vertex_count(hs) |->
        <<At(hs.tangents, i - 1, gt),
          IF has_transparency(hs) THEN At(hs.transparency, i - 1, 0)
          ELSE get_default_transparency(hs)>>]

create_color_transparency_data(hs) ==
    [i \in 1..get_vertex_count(hs) |->
        <<IF has_color(hs) THEN At(hs.color, i - 1, ZeroVec)
          ELSE get_default_color(hs),
          IF has_transparency(hs) THEN At(hs.transparency, i - 1, 0)
          ELSE get_default_transparency(hs)>>]

(***************************************************************************)
(* The generator.  A 64-bit value is its 16-bit words, low word first.     *)
(***************************************************************************)
Limb(x, k) == IF k \in 1..Len(x) THEN x[k] ELSE 0

RECURSIVE XorWord(_, _, _)
XorWord(a, b, n) ==
    IF n = 0 THEN 0
    ELSE ((a + b) % 2) + 2 * XorWord(a \div 2, b \div 2, n - 1)

Xor(x, y) ==
    << XorWord(x[1], y[1], 16), XorWord(x[2], y[2], 16),
       XorWord(x[3], y[3], 16), XorWord(x[4], y[4], 16) >>

\* x << n on 64 bits: the bits shifted past the top are dropped.
ShiftLeft(x, n) ==
    LET q == n \div 16
        r == n % 16
        W(k) == (Limb(x, k - q) % (2 ^ (16 - r))) * (2 ^ r)
                    + (Limb(x, k - q - 1) \div (2 ^ (16 - r)))
    IN  << W(1), W(2), W(3), W(4) >>

\* x >> n on 64 bits, zeros shifted in.
ShiftRight(x, n) ==
    LET q == n \div 16
        r == n % 16
        W(k) == (Limb(x, k + q) \div (2 ^ r))
                    + (Limb(x, k + q + 1) % (2 ^ r)) * (2 ^ (16 - r))
    IN  << W(1), W(2), W(3), W(4) >>

\* The element of a set of one element.  A value that later steps read many
\* times is written as the one element of a set, so that it is computed once.
The(S) == CHOOSE v \in S : TRUE

\* xorshift64: the new state, which is also the value drawn.
xorshift64(seed) ==
    The({ Xor(x2, ShiftLeft(x2, 17)) :
            x2 \in { Xor(x1, ShiftRight(x1, 7)) :
                      x1 \in { Xor(seed, ShiftLeft(seed, 13)) } } })

\* The arithmetic of double: 53 significant bits, round to nearest, ties
\* to even.
RECURSIVE Carry(_, _)
Carry(x, c) ==
    IF x = <<>> THEN <<>>
    ELSE <<(x[1] + c) % (2 ^ 16)>> \o Carry(Tail(x), (x[1] + c) \div (2 ^ 16))

RECURSIVE BitLength(_)
BitLength(w) == IF w = 0 THEN 0 ELSE 1 + BitLength(w \div 2)

RECURSIVE TopBit(_)
TopBit(x) ==
    IF x = <<>> THEN -1
    ELSE IF Last(x) # 0 THEN 16 * (Len(x) - 1) + BitLength(Last(x)) - 1
    ELSE TopBit(Front(x))

Bit(x, i) == (Limb(x, (i \div 16) + 1) \div (2 ^ (i % 16))) % 2

LowBits(x, s) ==
    IF s <= 16 THEN x[1] % (2 ^ s)
    ELSE x[1] + (x[2] % (2 ^ (s - 16))) * (2 ^ 16)

RoundToDouble(x) ==
    LET s == TopBit(x) - 52
        low == LowBits(x, s)
        half == 2 ^ (s - 1)
        up == low > half \/ (low = half /\ Bit(x, s) = 1)
        kept == [x EXCEPT
                   ![1] = @ - (low % (2 ^ 16))
                            + (IF up /\ s < 16 THEN 2 ^ s ELSE 0),
                   ![2] = @ - (low \div (2 ^ 16))
                            + (IF up /\ s >= 16 THEN 2 ^ (s - 16) ELSE 0)]
    IN  IF s <= 0 THEN x ELSE Carry(kept, 0)

Times(x, n) == Carry(<<x[1] * n, x[2] * n, x[3] * n, x[4] * n, x[5] * n>>, 0)

\* double random = x / double(2^64 - 1); size_t random_strand = random * size.
\* double(2^64 - 1) is 2^64, so the quotient is the double of x scaled by
\* 2^-64; the product is rounded once more and then truncated.
random_strand_of(x, size) ==
    The({ RoundToDouble(product)[5] :
            product \in { Times(random, size) :
                          random \in { RoundToDouble(wide) :
                                       wide \in { x \o <<0>> } } } })

(***************************************************************************)
(* The strand sampler.                                                     *)
(***************************************************************************)
\* std::ceil(count * ratio) for a ratio given as <<numerator, denominator>>.
ceil(count, ratio) == (count * ratio[1] + ratio[2] - 1) \div ratio[2]

RECURSIVE partial_sum(_)
partial_sum(s) ==
    IF s = <<>> THEN <<>>
    ELSE LET front == partial_sum(Front(s))
         IN  Append(front, IF front = <<>> THEN Last(s)
                           ELSE Last(front) + Last(s))

\* Where the vertices of every strand start.
strand_offset_of(hs) ==
    IF has_segments(hs)
    THEN partial_sum([i \in 1..Len(hs.segments) |->
                        IF i = 1 THEN 0 ELSE hs.segments[i - 1] + 1])
    ELSE partial_sum([i \in 1..get_strand_count(hs) |->
                        IF i = 1 THEN 0
                        ELSE get_default_segment_count(hs) + 1])

\* std::swap(s[i], s.back()); s.pop_back().  With i one past the end the
\* swap writes outside the array and what it puts in back() is popped.
swap_pop_back(s, i) ==
    IF i < Len(s) THEN Front([s EXCEPT ![i + 1] = Last(s)]) ELSE Front(s)

\* std::copy of [first, last) to the back of a vector.
copy(from, first, last, to, g) ==
    to \o [k \in 1..(last - first) |-> At(from, first + k - 1, g)]

\* One turn of the loop of reduce: strand random_strand is copied to the
\* reduced arrays and taken out of the working set.
take_strand(hs, st, g, strands_left, seed, random_strand) ==
    LET segment_count ==
            IF Len(st.segments) # 0
            THEN At(st.segments, random_strand, g.segment)
            ELSE get_default_segment_count(hs)
        attribute_start == At(st.strand_offset, random_strand, g.offset)
        attribute_end == attribute_start + segment_count + 1
        vec == <<g.element, g.element, g.element>>
    IN  [strands_left |-> strands_left,
         seed |-> seed,
         segments |-> IF Len(st.segments) # 0
                      THEN swap_pop_back(st.segments, random_strand)
                      ELSE st.segments,
         strand_offset |-> swap_pop_back(st.strand_offset, random_strand),
         reduced_segments |->
             Append(st.reduced_segments, segment_count % 65536),
         reduced_vertices |->
             IF has_vertices(hs)
             THEN copy(hs.vertices, attribute_start, attribute_end,
                       st.reduced_vertices, vec)
             ELSE st.reduced_vertices,
         reduced_thickness |->
             IF has_thickness(hs)
             THEN copy(hs.thickness, attribute_start, attribute_end,
                       st.reduced_thickness, g.element)
             ELSE st.reduced_thickness,
         reduced_tangents |->
             IF has_tangents(hs)
             THEN copy(hs.tangents, attribute_start, attribute_end,
                       st.reduced_tangents, vec)
             ELSE st.reduced_tangents,
         reduced_transparency |->
             IF has_transparency(hs)
             THEN copy(hs.transparency, attribute_start, attribute_end,
                       st.reduced_transparency, g.element)
             ELSE st.reduced_transparency,
         reduced_color |->
             IF has_color(hs)
             THEN copy(hs.color, attribute_start, attribute_end,
                       st.reduced_color, vec)
             ELSE st.reduced_color,
         ub |-> st.ub \/ random_strand >= Len(st.strand_offset)]

\* The loop of reduce.  strands_left is unsigned: -1 stands for 2^32 - 1.
\* g is what a read outside an array yields.
RECURSIVE sample_strands(_, _, _)
sample_strands(hs, st, g) ==
    IF st.strands_left - 1 = 0 \/ Len(st.strand_offset) = 0
    THEN [st EXCEPT !.strands_left = @ - 1]
    ELSE The({ sample_strands(hs, next, g) :
                 next \in { take_strand(hs, st, g, st.strands_left - 1, seed,
                                        random_strand_of(seed,
                                                         Len(st.strand_offset))) :
                            seed \in { xorshift64(st.seed) } } })

\* reduce: the object it leaves, and whether it read outside an array.
reduce_run(hs, ratio, g) ==
    The({ [hs |-> [generate_indices(
                     [hs EXCEPT !.seed = st.seed,
                                !.segments = st.reduced_segments,
                                !.vertices = st.reduced_vertices])
                   EXCEPT !.thickness = st.reduced_thickness,
                          !.tangents = st.reduced_tangents,
                          !.transparency = st.reduced_transparency,
                          !.color = st.reduced_color],
           ub |-> st.ub] :
          st \in { sample_strands(hs, start, g) :
                   start \in {
                     [strands_left |->
                          get_strand_count(hs)
                              - ceil(get_strand_count(hs), ratio),
                      seed |-> hs.seed,
                      segments |-> hs.segments,
                      strand_offset |-> strand_offset_of(hs),
                      reduced_segments |-> <<>>, reduced_vertices |-> <<>>,
                      reduced_thickness |-> <<>>, reduced_tangents |-> <<>>,
                      reduced_transparency |-> <<>>, reduced_color |-> <<>>,
                      \* strand_offset[0] = 0 in a table of no strands
                      ub |-> get_strand_count(hs) = 0] } } })

reduce(hs, ratio, g) == reduce_run(hs, ratio, g).hs

shuffle_run(hs, g) == reduce_run(hs, <<1, 1>>, g)

shuffle(hs, g) == shuffle_run(hs, g).hs

(***************************************************************************)
(* The codec: objects in memory are saved, the file is cut short or its    *)
(* signature overwritten, and objects are loaded from it.                  *)
(***************************************************************************)
\* An object in memory with arrays of the given lengths.  The element at
\* place i of each array is a value no other place of any array holds.
CodecAsset(header, tag, ns, nv, nth, ntr, nc, nt, ni) ==
    [file_header |-> header,
     segments |-> [i \in 1..ns |-> tag + i],
     vertices |-> [i \in 1..nv |-> <<tag + 100 + i, tag + 110 + i,
                                     65536 * i + tag>>],
     thickness |-> [i \in 1..nth |-> 65536 * (tag + 4) + i],
     transparency |-> [i \in 1..ntr |-> tag + 500 + i],
     color |-> [i \in 1..nc |-> <<tag + 600 + i, tag + 610 + i,
                                  tag + 620 + i>>],
     tangents |-> [i \in 1..nt |-> <<tag + 700 + i, tag + 710 + i,
                                     tag + 720 + i>>],
     indices |-> [i \in 1..ni |-> tag + 800 + i],
     error_state |-> "None",
     seed |-> ZeroSeed]

\* What the header may hold before save completes it.
StaleHeader ==
    [ZeroHeader EXCEPT !.signature = <<"H", "A", "I", "R">>,
        !.strand_count = 1, !.vertex_count = MaxLen + 1,
        !.field = Bitfield(TRUE, TRUE, TRUE, TRUE, TRUE, TRUE, TRUE, TRUE),
        !.default_segment_count = 1, !.default_thickness = 7,
        !.default_transparency = 8, !.default_color = <<9, 10, 11>>]

\* The objects load is called on: a new one, and one that holds arrays.
LoadTargets ==
    { NewHairStyle, CodecAsset(StaleHeader, 50, 1, 2, 2, 2, 2, 2, 2) }

IOSteps ==
    {"none", "open", "header", "segments", "vertices", "thickness",
     "transparency", "color", "tangents", "indices"}

\* The model's arrays hold fewer than 2^31 elements: a load whose index
\* section would be sized by a wrapped unsigned difference is outside it.
IndexSizeWraps(hs, file) ==
    /\ file.exists
    /\ file.header # <<>>
    /\ LET h0 == [hs EXCEPT !.file_header = file.header[1]]
           s0 == [hs |-> h0, body |-> file.body, pos |-> 0, ok |-> TRUE]
           s2 == read_vertices(read_segments(s0))
       IN  /\ valid_signature(h0)
           /\ h0.file_header.field.has_indices
           /\ get_segment_count(s2.hs) < 0

InitCodec ==
    /\ \E h \in {ZeroHeader, StaleHeader} :
       \E ns \in 0..MaxLen, nv \in 0..MaxLen, nth \in 0..MaxLen :
       \E ntr \in {0, MaxLen}, nc \in {0, MaxLen} :
       \E nt \in 0..MaxLen, ni \in 0..MaxLen :
          hair_style = CodecAsset(h, 0, ns, nv, nth, ntr, nc, nt, 2 * ni)
    /\ disk = NoFile
    /\ pc = "init"
    /\ pre = NewHairStyle
    /\ saved = [hs |-> NewHairStyle, io |-> "none"]
    /\ arg = "none"
    /\ out = TRUE
    /\ ub = FALSE
    /\ NoEngine

Save(io) ==
    /\ pc = "init"
    /\ LET r == save(hair_style, disk, io)
       IN  /\ hair_style' = r.hs
           /\ disk' = r.file
           /\ out' = (r.hs.error_state = "None")
    /\ pc' = "save"
    /\ pre' = hair_style
    /\ saved' = [hs |-> hair_style, io |-> io]
    /\ arg' = io
    /\ ub' = FALSE
    /\ UNCHANGED engine

\* The file loses its last n words.
Truncate(n) ==
    /\ pc = "save"
    /\ disk.exists
    /\ n <= Len(disk.body)
    /\ disk' = [disk EXCEPT !.body = SubSeq(@, 1, Len(@) - n)]
    /\ pc' = "truncate"
    /\ UNCHANGED <<hair_style, pre, saved, arg, out, ub>>
    /\ UNCHANGED engine

\* One byte of the signature is overwritten.
CorruptSignature(i) ==
    /\ pc = "save"
    /\ disk.exists
    /\ disk.header # <<>>
    /\ disk' = [disk EXCEPT !.header[1].signature[i] = "X"]
    /\ pc' = "corrupt"
    /\ UNCHANGED <<hair_style, pre, saved, arg, out, ub>>
    /\ UNCHANGED engine

Load(target) ==
    /\ pc \in {"save", "truncate", "corrupt"}
    /\ ~IndexSizeWraps(target, disk)
    /\ hair_style' = load(target, disk)
    /\ out' = (hair_style'.error_state = "None")
    /\ pre' = target
    /\ arg' = pc
    /\ pc' = "load"
    /\ UNCHANGED <<disk, saved, ub>>
    /\ UNCHANGED engine

NextCodec ==
    \/ \E io \in IOSteps : Save(io)
    \/ \E n \in 1..MaxCut : Truncate(n)
    \/ \E i \in 1..4 : CorruptSignature(i)
    \/ \E target \in LoadTargets : Load(target)

SpecCodec == InitCodec /\ [][NextCodec]_vars

(***************************************************************************)
(* Claims about the codec.                                                 *)
(***************************************************************************)
Arrays(hs) ==
    <<hs.segments, hs.vertices, hs.thickness, hs.transparency, hs.color,
      hs.tangents, hs.indices>>

\* A new object has just loaded the file save wrote, untouched, from an
\* object that passes format_is_valid once its header is completed.
RoundTripCase ==
    /\ pc = "load"
    /\ arg = "save"
    /\ pre = NewHairStyle
    /\ saved.io = "none"
    /\ format_is_valid(complete_header(saved.hs))

RoundTripHolds ==
    /\ out = TRUE
    /\ hair_style.error_state = "None"
    /\ get_strand_count(hair_style) = get_strand_count(saved.hs)
    /\ get_vertex_count(hair_style) = get_vertex_count(saved.hs)
    /\ hair_style.file_header.field =
           complete_header(saved.hs).file_header.field
    /\ Arrays(hair_style) = Arrays(saved.hs)

\* The derived arrays have the lengths the header's counts give them.
DerivedLengthsAgree(hs) ==
    /\ has_tangents(hs) => Len(hs.tangents) = get_vertex_count(hs)
    /\ has_indices(hs) => Len(hs.indices) = 2 * get_segment_count(hs)

\* C1 (as stated): every object that passes format_is_valid, whatever
\* optional arrays it holds, is reproduced by save followed by load into a
\* new object: no error, the same counts, bitfield and array contents.
C1_RoundTripAnyValid == RoundTripCase => RoundTripHolds

\* C1 (amended): save followed by load into a new object reproduces every
\* object that passes format_is_valid and whose tangents, when present,
\* number vertex_count and whose indices, when present, number
\* 2 * (vertex_count - strand_count).
C1_RoundTrip ==
    RoundTripCase /\ DerivedLengthsAgree(saved.hs) => RoundTripHolds

C1_Witness ==
    /\ RoundTripCase
    /\ DerivedLengthsAgree(saved.hs)
    /\ has_segments(saved.hs) /\ has_thickness(saved.hs)
    /\ has_tangents(saved.hs) /\ has_indices(saved.hs)
    /\ ~valid_signature(saved.hs)
    /\ hair_style.tangents = saved.hs.tangents

\* C2: a file that holds a header whose signature is not "HAIR" makes load
\* return false with InvalidSignature, and load leaves every section
\* array as it was.
C2_SignatureRejected ==
    (/\ pc = "load"
     /\ disk.header # <<>>
     /\ disk.header[1].signature # <<"H", "A", "I", "R">>)
    => /\ out = FALSE
       /\ hair_style.error_state = "InvalidSignature"
       /\ Arrays(hair_style) = Arrays(pre)

C2_Witness ==
    /\ pc = "load"
    /\ arg = "corrupt"
    /\ disk.header[1].signature = <<"H", "A", "I", "X">>
    /\ disk.header[1].field.has_tangents
    /\ disk.body # <<>>
    /\ has_tangents(pre)
    /\ hair_style.error_state = "InvalidSignature"

\* The errors of the section reads.
SectionErrors ==
    {"ReadingSegments", "ReadingVertices", "ReadingThickness",
     "ReadingTransparency", "ReadingColor", "ReadingTangents",
     "ReadingIndices"}

\* Nothing of the object but its error state differs from before the call.
LoadChangedNothing ==
    /\ hair_style.file_header = pre.file_header
    /\ Arrays(hair_style) = Arrays(pre)

\* The header and every section the header announces came from the file.
LoadedWholeFile ==
    /\ hair_style.file_header = disk.header[1]
    /\ LET f == hair_style.file_header.field
           n == hair_style.file_header.vertex_count
           words == (IF f.has_segments
                       THEN Dump("u16", hair_style.segments) ELSE <<>>)
                 \o (IF f.has_vertices
                       THEN Dump("vec3", hair_style.vertices) ELSE <<>>)
                 \o (IF f.has_thickness
                       THEN Dump("f32", hair_style.thickness) ELSE <<>>)
                 \o (IF f.has_transparency
                       THEN Dump("f32", hair_style.transparency) ELSE <<>>)
                 \o (IF f.has_color
                       THEN Dump("vec3", hair_style.color) ELSE <<>>)
                 \o (IF f.has_tangents
                       THEN Dump("vec3", hair_style.tangents) ELSE <<>>)
                 \o (IF f.has_indices
                       THEN Dump("u32", hair_style.indices) ELSE <<>>)
       IN  /\ f.has_segments =>
                Len(hair_style.segments) = hair_style.file_header.strand_count
           /\ f.has_vertices => Len(hair_style.vertices) = n
           /\ f.has_thickness => Len(hair_style.thickness) = n
           /\ f.has_transparency => Len(hair_style.transparency) = n
           /\ f.has_color => Len(hair_style.color) = n
           /\ f.has_tangents => Len(hair_style.tangents) = n
           /\ Len(words) <= Len(disk.body)
           /\ words = SubSeq(disk.body, 1, Len(words))

\* C3: a load that returns false for a section read failure or for
\* InvalidFormat leaves the header and the arrays either all as they were
\* or all populated from the file.
C3_LoadAllOrNothing ==
    (/\ pc = "load"
     /\ out = FALSE
     /\ hair_style.error_state \in SectionErrors \cup {"InvalidFormat"})
    => LoadChangedNothing \/ LoadedWholeFile

(***************************************************************************)
(* The generators: an object that holds strands in memory, and one call    *)
(* of a generator on it.                                                   *)
(***************************************************************************)
Points ==
    { <<0, 0, 0>>, <<1, 1, 0>>, <<2, 1, 3>>, <<-1, -2, -1>> }

\* What back() of an empty vector may read.
GarbageTangents == { <<0, 0, 0, 0>>, <<1, 2, 2, 9>> }

\* The segment lists of at most MaxStrands strands and MaxVertices vertices.
SegmentLists ==
    { segs \in UNION { [1..n -> 0..MaxSegments] : n \in 1..MaxStrands } :
        Sum(segs) + Len(segs) <= MaxVertices }

\* Strand counts and default segment counts of objects without segments.
UniformLayouts ==
    { l \in (0..MaxStrands) \X (0..MaxSegments) :
        l[1] * (l[2] + 1) <= MaxVertices }

GeometryAsset(segs, strand_count, default_segment_count, vertices) ==
    [NewHairStyle EXCEPT
        !.file_header.signature = <<"H", "A", "I", "R">>,
        !.file_header.strand_count = strand_count,
        !.file_header.vertex_count = Len(vertices),
        !.file_header.default_segment_count = default_segment_count,
        !.segments = segs,
        !.vertices = vertices]

\* How an object lays its strands out: its segments, or its header's
\* strand count and default segment count.
Layouts ==
    { [segments |-> segs, strand_count |-> Len(segs),
       default_segment_count |-> 0] : segs \in SegmentLists }
    \cup
    { [segments |-> <<>>, strand_count |-> l[1],
       default_segment_count |-> l[2]] : l \in UniformLayouts }

LayoutVertexCount(layout) ==
    IF layout.segments # <<>>
    THEN Sum(layout.segments) + Len(layout.segments)
    ELSE layout.strand_count * (layout.default_segment_count + 1)

\* The segment count of every strand, and where a strand's vertices start.
SegmentsOf(hs) ==
    IF has_segments(hs) THEN hs.segments
    ELSE [i \in 1..hs.file_header.strand_count |->
             get_default_segment_count(hs)]

StrandStart(segs, s) == Sum(SubSeq(segs, 1, s - 1)) + (s - 1)

\* The vertices are the strands' vertices, strand after strand.
StrandMajor(hs) ==
    Len(hs.vertices) = Sum(SegmentsOf(hs)) + Len(SegmentsOf(hs))

InitGeometry ==
    /\ \E layout \in Layouts :
         \E vertices \in [1..LayoutVertexCount(layout) -> Points] :
            hair_style = GeometryAsset(layout.segments, layout.strand_count,
                                       layout.default_segment_count, vertices)
    /\ disk = NoFile
    /\ pc = "init"
    /\ pre = NewHairStyle
    /\ saved = [hs |-> NewHairStyle, io |-> "none"]
    /\ arg = "none"
    /\ out = TRUE
    /\ ub = FALSE
    /\ NoEngine

GenerateTangents(gt) ==
    /\ pc = "init"
    /\ hair_style' = generate_tangents(hair_style, ZeroVec, gt)
    /\ out' = generate_tangents_loop(hair_style, ZeroVec, gt).source
    /\ ub' = generate_tangents_loop(hair_style, ZeroVec, gt).ub
    /\ pc' = "generate_tangents"
    /\ pre' = hair_style
    /\ UNCHANGED <<disk, saved, arg>>
    /\ UNCHANGED engine

GenerateIndices ==
    /\ pc = "init"
    /\ hair_style' = generate_indices(hair_style)
    /\ pc' = "generate_indices"
    /\ pre' = hair_style
    /\ UNCHANGED <<disk, saved, arg, out, ub>>
    /\ UNCHANGED engine

GenerateBoundingBox ==
    /\ pc = "init"
    /\ hair_style' = generate_bounding_box(hair_style)
    /\ pc' = "generate_bounding_box"
    /\ pre' = hair_style
    /\ UNCHANGED <<disk, saved, arg, out, ub>>
    /\ UNCHANGED engine

GetBoundingBox ==
    /\ pc = "generate_bounding_box"
    /\ out' = get_bounding_box(hair_style)
    /\ pc' = "get_bounding_box"
    /\ pre' = hair_style
    /\ UNCHANGED <<hair_style, disk, saved, arg, ub>>
    /\ UNCHANGED engine

NextGeometry ==
    \/ \E gt \in GarbageTangents : GenerateTangents(gt)
    \/ GenerateIndices
    \/ GenerateBoundingBox
    \/ GetBoundingBox

SpecGeometry == InitGeometry /\ [][NextGeometry]_vars

(***************************************************************************)
(* Claims about the generators.                                            *)
(***************************************************************************)
\* C4: generate_tangents on strand-major vertices, strands of no segment
\* and of one segment included, yields vertex_count tangents; a vertex
\* that is not its strand's last has the normalized direction to the next
\* vertex, a strand's last vertex the tangent of its predecessor in the
\* strand; the last element of an empty tangent list is never read and no
\* tangent is taken from another strand.
C4_GenerateTangents ==
    pc = "generate_tangents" /\ StrandMajor(pre) =>
        LET segs == SegmentsOf(pre)
            t == hair_style.tangents
        IN  /\ Len(t) = get_vertex_count(pre)
            /\ ~ub
            /\ \A s \in 1..Len(segs) :
                 LET first == StrandStart(segs, s) + 1
                     last == first + segs[s]
                 IN  /\ \A v \in first..(last - 1) :
                            t[v] = normalize(VecSub(pre.vertices[v + 1],
                                                    pre.vertices[v]))
                     /\ segs[s] >= 1 => t[last] = t[last - 1]
                     /\ out[last] \notin 1..(first - 1)

\* The pairs (v, v + 1) of every segment of every strand, in order.
ExpectedIndices(segs) ==
    Flatten([s \in 1..Len(segs) |->
        Flatten([k \in 1..segs[s] |->
            <<StrandStart(segs, s) + k - 1, StrandStart(segs, s) + k>>])])

\* C5: generate_indices on strand-major vertices yields exactly the pairs
\* (v, v + 1) of the segments of each strand in order: 2 * sum(s[i])
\* indices, each below sum(s[i] + 1), and no pair from the last vertex of
\* a strand to the first vertex of the next.
C5_GenerateIndices ==
    pc = "generate_indices" /\ StrandMajor(pre) =>
        LET segs == SegmentsOf(pre)
            idx == hair_style.indices
        IN  /\ idx = ExpectedIndices(segs)
            /\ Len(idx) = 2 * Sum(segs)
            /\ \A i \in 1..Len(idx) : idx[i] < Sum(segs) + Len(segs)
            /\ \A i \in 1..Sum(segs) :
                 /\ idx[2 * i] = idx[2 * i - 1] + 1
                 /\ \A s \in 1..Len(segs) :
                        idx[2 * i - 1] # StrandStart(segs, s) + segs[s]

C5_Witness ==
    /\ pc = "generate_indices"
    /\ pre.segments = <<2, 1>>
    /\ hair_style.indices = <<0, 1, 1, 2, 3, 4>>
    /\ StrandMajor(pre)

\* The least and the greatest coordinate of the positions on an axis.
AxisMin(positions, k) ==
    CHOOSE m \in { positions[i][k] : i \in 1..Len(positions) } :
        \A i \in 1..Len(positions) : m <= positions[i][k]

AxisMax(positions, k) ==
    CHOOSE m \in { positions[i][k] : i \in 1..Len(positions) } :
        \A i \in 1..Len(positions) : m >= positions[i][k]

\* C6: after generate_bounding_box, get_bounding_box returns for every
\* non-empty set of positions the per-axis minimum as origin and the
\* per-axis maximum minus minimum as size.
C6_BoundingBox ==
    pc = "get_bounding_box" /\ hair_style.vertices # <<>> =>
        \A k \in 1..3 :
            /\ out.origin[k] = AxisMin(hair_style.vertices, k)
            /\ out.size[k] = AxisMax(hair_style.vertices, k)
                             - AxisMin(hair_style.vertices, k)

(***************************************************************************)
(* The strand sampler: an object with strands, some of its optional        *)
(* arrays and a generator state, and one call of reduce or shuffle.        *)
(***************************************************************************)
\* Every vertex and every attribute of a vertex is told apart by its value.
ReduceAsset(layout, present, seed) ==
    LET n == LayoutVertexCount(layout)
        thi == "thickness" \in present
        tra == "transparency" \in present
        col == "color" \in present
        tan == "tangents" \in present
        hs == GeometryAsset(layout.segments, layout.strand_count,
                            layout.default_segment_count,
                            [i \in 1..n |-> <<i, 0, 0>>])
    IN  [hs EXCEPT
           !.thickness = [i \in 1..(IF thi THEN n ELSE 0) |-> 100 + i],
           !.transparency = [i \in 1..(IF tra THEN n ELSE 0) |-> 200 + i],
           !.color = [i \in 1..(IF col THEN n ELSE 0) |-> <<300 + i, 0, 0>>],
           !.tangents = [i \in 1..(IF tan THEN n ELSE 0) |-> <<400 + i, 0, 0>>],
           !.seed = seed]

Ratios == { <<0, 1>>, <<1, 4>>, <<1, 2>>, <<3, 4>>, <<1, 1>> }

\* States of the generator.  xorshift64 runs through every non-zero state
\* from any non-zero seed, and stays at zero from the seed zero.
Seeds ==
    { ZeroSeed,
      <<51704, 23965, 39005, 38193>>, <<3383, 9886, 9998, 25875>>,
      <<1141, 3801, 23956, 59618>>, <<55828, 25996, 58012, 3249>>,
      <<42064, 42659, 32720, 3164>>, <<46136, 21222, 19940, 62119>>,
      <<37347, 37358, 33378, 31475>>,
      \* the next value drawn is 2^64 - 1
      <<40388, 3017, 20837, 27179>>,
      \* the second value drawn is 2^64 - 1
      <<11026, 47129, 28501, 50206>> }

\* What a read outside an array may yield.
Garbage ==
    { [segment |-> 0, offset |-> 0, element |-> 0],
      [segment |-> 1, offset |-> 0, element |-> 1],
      [segment |-> 1, offset |-> MaxVertices, element |-> 0] }

\* The vertex-aligned arrays an object may hold besides its vertices.
Attributes == {"thickness", "tangents", "transparency", "color"}

AttributeSets == { {}, {"thickness"}, {"tangents", "color"}, Attributes }

InitReduce ==
    /\ \E layout \in Layouts, seed \in Seeds, present \in AttributeSets :
          /\ layout.strand_count >= 1
          /\ hair_style = ReduceAsset(layout, present, seed)
    /\ disk = NoFile
    /\ pc = "init"
    /\ pre = NewHairStyle
    /\ saved = [hs |-> NewHairStyle, io |-> "none"]
    /\ arg = "none"
    /\ out = TRUE
    /\ ub = FALSE
    /\ NoEngine

Reduce(ratio, g) ==
    /\ pc = "init"
    /\ \E run \in {reduce_run(hair_style, ratio, g)} :
          hair_style' = run.hs /\ ub' = run.ub
    /\ pc' = "reduce"
    /\ pre' = hair_style
    /\ arg' = ratio
    /\ UNCHANGED <<disk, saved, out>>
    /\ UNCHANGED engine

Shuffle(g) ==
    /\ pc = "init"
    /\ \E run \in {shuffle_run(hair_style, g)} :
          hair_style' = run.hs /\ ub' = run.ub
    /\ pc' = "shuffle"
    /\ pre' = hair_style
    /\ arg' = <<1, 1>>
    /\ UNCHANGED <<disk, saved, out>>
    /\ UNCHANGED engine

NextReduce ==
    \/ \E ratio \in Ratios, g \in Garbage : Reduce(ratio, g)
    \/ \E g \in Garbage : Shuffle(g)

SpecReduce == InitReduce /\ [][NextReduce]_vars

(***************************************************************************)
(* Claims about the strand sampler.                                        *)
(***************************************************************************)
\* Strand s of an object, as the values of its vertices in every
\* vertex-aligned array that holds them all.
Slice(array, segs, s) ==
    SubSeq(array, StrandStart(segs, s) + 1, StrandStart(segs, s) + segs[s] + 1)

Strand(hs, s) ==
    LET segs == SegmentsOf(hs)
    IN  [segment_count |-> segs[s],
         vertices |-> Slice(hs.vertices, segs, s),
         attributes |-> [a \in Attributes |->
                            IF Len(hs[a]) = Len(hs.vertices)
                            THEN Slice(hs[a], segs, s) ELSE <<>>]]

\* C7: after reduce(r) of an object with N >= 1 strands, r in [0, 1], the
\* object holds exactly N - ceil(N * r) strands.
C7_ReduceStrandCount ==
    (pc = "reduce" /\ get_strand_count(pre) >= 1) =>
        Len(hair_style.segments)
            = get_strand_count(pre) - ceil(get_strand_count(pre), arg)

\* C8: after reduce(r), r in (0, 1), every strand of the object is the
\* whole of one strand of the object before, vertex after vertex and with
\* that strand's segment count, no strand before being taken twice; every
\* array that was present holds one element per vertex left, and element k
\* of it is the one that went with vertex k before.
C8_ReductionInvariant ==
    (pc = "reduce" /\ arg \in Ratios \ {<<0, 1>>, <<1, 1>>}) =>
        LET segs == hair_style.segments
            n == Len(segs)
            before == { Strand(pre, s) : s \in 1..get_strand_count(pre) }
        IN  /\ Len(hair_style.vertices) = Sum(segs) + n
            /\ \A a \in Attributes :
                  Len(hair_style[a]) =
                     IF Len(pre[a]) # 0 THEN Len(hair_style.vertices) ELSE 0
            /\ \A j \in 1..n : Strand(hair_style, j) \in before
            /\ \A j, k \in 1..n :
                  Strand(hair_style, j) = Strand(hair_style, k) => j = k

\* C9: after shuffle of an object with N >= 1 strands, whatever the state
\* of the generator, the object holds as many strands and vertices as
\* before, and its strands are the strands before in some order, each with
\* its vertices and their attributes.
C9_ShuffleKeepsStrands ==
    (pc = "shuffle" /\ get_strand_count(pre) >= 1) =>
        /\ Len(hair_style.segments) = get_strand_count(pre)
        /\ Len(hair_style.vertices) = Len(pre.vertices)
        /\ \A a \in Attributes : Len(hair_style[a]) = Len(pre[a])
        /\ { Strand(hair_style, j) : j \in 1..Len(hair_style.segments) }
             = { Strand(pre, s) : s \in 1..get_strand_count(pre) }

(***************************************************************************)
(* The fused buffers: an object with some of its optional arrays, whose    *)
(* default thickness may be set, and one call of a builder.                *)
(***************************************************************************)
FusedAsset(nv, thi, tra, col, tan, dthi, dtra, dcol) ==
    [NewHairStyle EXCEPT
        !.file_header.signature = <<"H", "A", "I", "R">>,
        !.file_header.strand_count = 1,
        !.file_header.vertex_count = nv,
        !.file_header.default_segment_count = nv - 1,
        !.file_header.default_thickness = dthi,
        !.file_header.default_transparency = dtra,
        !.file_header.default_color = dcol,
        !.vertices = [i \in 1..nv |-> <<i, 0, 0>>],
        !.thickness = [i \in 1..(IF thi THEN nv ELSE 0) |-> 10 * i],
        !.transparency = [i \in 1..(IF tra THEN nv ELSE 0) |-> 500 + i],
        !.color = [i \in 1..(IF col THEN nv ELSE 0) |->
                      <<600 + i, 610 + i, 620 + i>>],
        !.tangents = [i \in 1..(IF tan THEN nv ELSE 0) |-> <<1, 0, 0, 1>>]]

DefaultThicknesses == {HardcodedThickness, 100}

InitFused ==
    /\ \E nv \in 1..MaxLen, thi \in BOOLEAN, tra \in BOOLEAN :
       \E col \in BOOLEAN, tan \in BOOLEAN :
       \E dthi \in DefaultThicknesses, dtra \in {0, 5} :
       \E dcol \in {ZeroVec, <<1, 2, 3>>} :
          hair_style = FusedAsset(nv, thi, tra, col, tan, dthi, dtra, dcol)
    /\ disk = NoFile
    /\ pc = "init"
    /\ pre = NewHairStyle
    /\ saved = [hs |-> NewHairStyle, io |-> "none"]
    /\ arg = "none"
    /\ out = <<>>
    /\ ub = FALSE
    /\ NoEngine

SetDefaultThickness(t) ==
    /\ pc = "init"
    /\ hair_style' = set_default_thickness(hair_style, t)
    /\ pc' = "set_default_thickness"
    /\ pre' = hair_style
    /\ UNCHANGED <<disk, saved, arg, out, ub>>
    /\ UNCHANGED engine

CreatePositionThicknessData ==
    /\ pc \in {"init", "set_default_thickness"}
    /\ out' = create_position_thickness_data(hair_style)
    /\ ub' = (has_thickness(hair_style)
              /\ Len(hair_style.thickness) < get_vertex_count(hair_style))
    /\ pc' = "create_position_thickness_data"
    /\ pre' = hair_style
    /\ UNCHANGED <<hair_style, disk, saved, arg>>
    /\ UNCHANGED engine

CreateTangentTransparencyData(gt) ==
    /\ pc \in {"init", "set_default_thickness"}
    /\ out' = create_tangent_transparency_data(hair_style, gt)
    /\ ub' = (\/ Len(hair_style.tangents) < get_vertex_count(hair_style)
              \/ /\ has_transparency(hair_style)
                 /\ Len(hair_style.transparency) < get_vertex_count(hair_style))
    /\ pc' = "create_tangent_transparency_data"
    /\ pre' = hair_style
    /\ UNCHANGED <<hair_style, disk, saved, arg>>
    /\ UNCHANGED engine

CreateColorTransparencyData ==
    /\ pc \in {"init", "set_default_thickness"}
    /\ out' = create_color_transparency_data(hair_style)
    /\ ub' = (\/ /\ has_color(hair_style)
                 /\ Len(hair_style.color) < get_vertex_count(hair_style)
              \/ /\ has_transparency(hair_style)
                 /\ Len(hair_style.transparency) < get_vertex_count(hair_style))
    /\ pc' = "create_color_transparency_data"
    /\ pre' = hair_style
    /\ UNCHANGED <<hair_style, disk, saved, arg>>
    /\ UNCHANGED engine

NextFused ==
    \/ \E t \in DefaultThicknesses : SetDefaultThickness(t)
    \/ CreatePositionThicknessData
    \/ \E gt \in GarbageTangents : CreateTangentTransparencyData(gt)
    \/ CreateColorTransparencyData

SpecFused == InitFused /\ [][NextFused]_vars

\* C10: each builder returns vertex_count elements; where the optional
\* array is absent the thickness, transparency or colour of every element
\* is the header's current default, and where it is present element i
\* carries the array's value i.
C10_FusedDefaults ==
    LET n == get_vertex_count(hair_style)
        thickness(i) == IF has_thickness(hair_style)
                        THEN hair_style.thickness[i]
                        ELSE get_default_thickness(hair_style)
        transparency(i) == IF has_transparency(hair_style)
                           THEN hair_style.transparency[i]
                           ELSE get_default_transparency(hair_style)
        color(i) == IF has_color(hair_style) THEN hair_style.color[i]
                    ELSE get_default_color(hair_style)
    IN  /\ pc = "create_position_thickness_data" =>
             /\ Len(out) = n
             /\ \A i \in 1..n : out[i][2] = thickness(i)
        /\ pc = "create_tangent_transparency_data" =>
             /\ Len(out) = n
             /\ \A i \in 1..n : out[i][2] = transparency(i)
        /\ pc = "create_color_transparency_data" =>
             /\ Len(out) = n
             /\ \A i \in 1..n : out[i] = <<color(i), transparency(i)>>

(***************************************************************************)
(* The voxelizer.  Its arithmetic is that of floats whose values are       *)
(* carried exactly: a finite value is the fraction n / d with d > 0, an    *)
(* infinity carries its sign in n, and NaN is the result of 0 / 0 and of   *)
(* inf - inf.  A zero is the positive zero: the divisors the voxelizer     *)
(* forms are a size over a resolution and an absolute value.               *)
(***************************************************************************)
Fin(n, d) ==
    LET g == GCD(Abs(n), d)
    IN  [k |-> "fin", n |-> n \div g, d |-> d \div g]

Inf(sign) == [k |-> "inf", n |-> sign, d |-> 1]

NaN == [k |-> "nan", n |-> 0, d |-> 1]

Sign(n) == IF n < 0 THEN -1 ELSE 1

FNeg(a) == [a EXCEPT !.n = -a.n]

FAbs(a) == [a EXCEPT !.n = Abs(a.n)]

FAdd(a, b) ==
    IF a.k = "nan" \/ b.k = "nan" THEN NaN
    ELSE IF a.k = "inf" /\ b.k = "inf" THEN IF a.n = b.n THEN a ELSE NaN
    ELSE IF a.k = "inf" THEN a
    ELSE IF b.k = "inf" THEN b
    ELSE Fin(a.n * b.d + b.n * a.d, a.d * b.d)

FSub(a, b) == FAdd(a, FNeg(b))

FMul(a, b) ==
    IF a.k = "nan" \/ b.k = "nan" THEN NaN
    ELSE IF a.k = "inf" \/ b.k = "inf"
         THEN IF a.n = 0 \/ b.n = 0 THEN NaN ELSE Inf(Sign(a.n) * Sign(b.n))
    ELSE Fin(a.n * b.n, a.d * b.d)

FDiv(a, b) ==
    IF a.k = "nan" \/ b.k = "nan" THEN NaN
    ELSE IF a.k = "inf" THEN IF b.k = "inf" THEN NaN
                             ELSE Inf(a.n * Sign(b.n))
    ELSE IF b.k = "inf" THEN Fin(0, 1)
    ELSE IF b.n = 0 THEN IF a.n = 0 THEN NaN ELSE Inf(Sign(a.n))
    ELSE Fin(a.n * b.d * Sign(b.n), a.d * Abs(b.n))

\* a < b: false when either is NaN.
FLess(a, b) ==
    IF a.k = "nan" \/ b.k = "nan" THEN FALSE
    ELSE IF a.k = "inf" THEN a.n < 0 /\ ~(b.k = "inf" /\ b.n < 0)
    ELSE IF b.k = "inf" THEN b.n > 0
    ELSE a.n * b.d < b.n * a.d

FFloor(a) == IF a.k = "fin" THEN Fin(a.n \div a.d, 1) ELSE a

\* glm::min(x, y) is (y < x) ? y : x and glm::max(x, y) is (x < y) ? y : x.
FMin(x, y) == IF FLess(y, x) THEN y ELSE x

FMax(x, y) == IF FLess(x, y) THEN y ELSE x

\* The integer a float converts to (the fraction dropped), where it has one.
Truncated(a) == IF a.n >= 0 THEN a.n \div a.d ELSE -((-a.n) \div a.d)

\* A conversion to an integer type is defined when the truncated value is
\* one of the type's.
Converts(a, lo, hi) ==
    a.k = "fin" /\ Truncated(a) >= lo /\ Truncated(a) <= hi

\* The value of a tangent of unit length along an axis.
TangentValue(t) == <<t[1], t[2], t[3]>>

VoxelCount(resolution) == resolution[1] * resolution[2] * resolution[3]

\* The grid before anything is splatted into it.
NewVolume(hs, resolution) ==
    [resolution |-> resolution,
     bounds |-> get_bounding_box(hs),
     densities |-> [i \in 1..VoxelCount(resolution) |-> 0],
     tangents |-> <<>>]

\* (position - volume.bounds.origin) / voxel_size, an axis at a time.
VoxelSpace(position, volume) ==
    [a \in 1..3 |->
        FDiv(Fin(position[a] - volume.bounds.origin[a], 1),
             Fin(volume.bounds.size[a], volume.resolution[a]))]

\* glm::min(glm::floor(voxel), volume.resolution - 1.0f)
ClampedVoxel(voxel, volume) ==
    [a \in 1..3 |-> FMin(FFloor(voxel[a]), Fin(volume.resolution[a] - 1, 1))]

\* voxel.x + voxel.y*width + voxel.z*width*height, still a float.
VoxelIndex(voxel, volume) ==
    FAdd(FAdd(voxel[1], FMul(voxel[2], Fin(volume.resolution[1], 1))),
         FMul(FMul(voxel[3], Fin(volume.resolution[1], 1)),
              Fin(volume.resolution[2], 1)))

\* The accumulation into voxel pos: dropped once the density is 255.  An
\* index outside the grid reads and writes outside the arrays; st.pos lists
\* the indices used, in order.  defined: the index is the value of the
\* float; inside: the tangent read lies in the tangents.
Accumulate(st, pos, tangent, defined, inside) ==
    IF pos >= 0 /\ pos < Len(st.densities)
    THEN IF st.densities[pos + 1] # 255
         THEN [st EXCEPT
                  !.precise_tangents[pos + 1] =
                      <<@[1] + tangent[1], @[2] + tangent[2],
                        @[3] + tangent[3]>>,
                  !.densities[pos + 1] = (@ + 1) % 256,
                  !.pos = Append(@, pos),
                  !.ub = @ \/ ~defined \/ ~inside]
         ELSE [st EXCEPT !.pos = Append(@, pos), !.ub = @ \/ ~defined]
    ELSE [st EXCEPT !.pos = Append(@, pos), !.ub = TRUE]

\* One turn of the loop of voxelize_vertices.  g.pos is what the
\* conversion of a float that is no std::size_t yields, g.tangent what
\* lies behind the end of the tangents.
splat_vertex(hs, volume, st, i, g) ==
    LET index == VoxelIndex(ClampedVoxel(VoxelSpace(hs.vertices[i + 1],
                                                    volume), volume),
                            volume)
        defined == index.k = "fin" /\ Truncated(index) >= 0
        pos == IF defined THEN Truncated(index) ELSE g.pos
    IN  Accumulate(st, pos, TangentValue(At(hs.tangents, i, g.tangent)),
                   defined, i < Len(hs.tangents))

\* The loop of voxelize_vertices over the vertices from first up to, and
\* without, last: the first half of them, then the rest.
RECURSIVE splat_vertices(_, _, _, _, _, _)
splat_vertices(hs, volume, st, first, last, g) ==
    IF last <= first THEN st
    ELSE IF last = first + 1 THEN splat_vertex(hs, volume, st, first, g)
    ELSE The({ splat_vertices(hs, volume, half,
                              first + (last - first) \div 2, last, g) :
               half \in { splat_vertices(hs, volume, st, first,
                                         first + (last - first) \div 2,
                                         g) } })

\* The finalization pass: a component is the sum over the density, times
\* 127, converted to a signed byte; g.quantized is what the conversion of a
\* float that is no signed byte yields.
QuantizedComponent(sum, density, g) ==
    LET value == FMul(FDiv(Fin(sum, 1), Fin(density, 1)), Fin(127, 1))
    IN  IF Converts(value, -128, 127) THEN Truncated(value) ELSE g.quantized

QuantizedDefined(sum, density) ==
    Converts(FMul(FDiv(Fin(sum, 1), Fin(density, 1)), Fin(127, 1)), -128, 127)

quantize(st, i, g) ==
    <<QuantizedComponent(st.precise_tangents[i][1], st.densities[i], g),
      QuantizedComponent(st.precise_tangents[i][2], st.densities[i], g),
      QuantizedComponent(st.precise_tangents[i][3], st.densities[i], g)>>

\* The finalization loop with every turn assigning the tangent of the first
\* voxel.
quantize_voxel_first(tangents, st, i, g) ==
    The({ [tangents EXCEPT ![1] = <<quantized[1], quantized[2],
                                    quantized[3], @[4]>>] :
          quantized \in { quantize(st, i, g) } })

\* One turn of the finalization loop: x, y and z of the tangent of voxel i
\* (counted from 1) are assigned.
quantize_voxel(tangents, st, i, g) ==
    The({ [tangents EXCEPT ![i] = <<quantized[1], quantized[2],
                                    quantized[3], @[4]>>] :
          quantized \in { quantize(st, i, g) } })

RECURSIVE quantize_from(_, _, _, _)
quantize_from(tangents, st, i, g) ==
    IF i > Len(st.densities) THEN tangents
    ELSE The({ quantize_from(next, st, i + 1, g) :
               next \in { quantize_voxel(tangents, st, i, g) } })

\* volume.tangents.resize(width * height * depth, { 0, 0, 0, 0 }) and the
\* finalization loop.
quantize_all(st, g) ==
    [tangents |-> quantize_from([i \in 1..Len(st.densities) |->
                                    <<0, 0, 0, 0>>], st, 1, g),
     ub |-> \E i \in 1..Len(st.densities) : \E a \in 1..3 :
                ~QuantizedDefined(st.precise_tangents[i][a], st.densities[i])]

\* What a voxelizer returns: the volume, the voxel indices it used, the
\* summed tangents, whether its marching loop never ends, and whether it
\* left the defined behaviour of the language.
Voxelized(volume, st, g) ==
    The({ [volume |-> [volume EXCEPT !.densities = st.densities,
                                     !.tangents = q.tangents],
           pos |-> st.pos,
           precise_tangents |-> st.precise_tangents,
           hang |-> st.hang,
           ub |-> st.ub \/ q.ub,
           quantization_ub |-> q.ub]
          : q \in { quantize_all(st, g) } })

NewSplat(volume) ==
    [densities |-> volume.densities,
     precise_tangents |-> [i \in 1..Len(volume.densities) |-> ZeroVec],
     pos |-> <<>>,
     hang |-> FALSE,
     ub |-> FALSE]

voxelize_vertices(hs, width, height, depth, g) ==
    The({ The({ Voxelized(volume, st, g)
                : st \in { splat_vertices(hs, volume, NewSplat(volume), 0,
                                          get_vertex_count(hs), g) } })
          : volume \in { NewVolume(hs, <<width, height, depth>>) } })

\* The while loop of voxelize_segments: one splat at root, then a step
\* along direction, as long as steps-- > 0.  A count of steps that is
\* infinite never reaches 0.
RECURSIVE march(_, _, _, _, _, _, _)
march(volume, st, root, direction, steps, tangent, g) ==
    IF ~FLess(Fin(0, 1), steps) THEN st
    ELSE IF steps.k = "inf" THEN [st EXCEPT !.hang = TRUE]
    ELSE The({ march(volume, next,
                     [a \in 1..3 |-> FAdd(root[a], direction[a])],
                     direction, FSub(steps, Fin(1, 1)), tangent, g) :
               next \in { LET index == VoxelIndex(ClampedVoxel(root, volume),
                                                  volume)
                              defined == Converts(index, -2147483647 - 1,
                                                  2147483647)
                              pos == IF defined THEN Truncated(index)
                                     ELSE g.pos
                          IN  Accumulate(st, pos, tangent.value, defined,
                                         tangent.inside) } })

\* The for loop of voxelize_segments from index i on.  Its bound is
\* indices.size() - 1 in unsigned arithmetic, which no i reaches when there
\* are no indices; the model follows the loop up to its first read outside
\* the indices.  g.index is what lies outside the indices, g.vertex what
\* lies outside the vertices.
RECURSIVE march_segments(_, _, _, _, _)
march_segments(hs, volume, st, i, g) ==
    IF Len(hs.indices) # 0 /\ i >= Len(hs.indices) - 1 THEN st
    ELSE The({
        IF i + 1 >= Len(hs.indices) THEN next
        ELSE march_segments(hs, volume, next, i + 2, g) :
        next \in {
            LET first == At(hs.indices, i, g.index)
                second == At(hs.indices, i + 1, g.index)
                root == VoxelSpace(At(hs.vertices, first, g.vertex), volume)
                tip == VoxelSpace(At(hs.vertices, second, g.vertex), volume)
                direction == [a \in 1..3 |-> FSub(tip[a], root[a])]
                steps == FMax(FMax(FAbs(direction[1]), FAbs(direction[2])),
                              FAbs(direction[3]))
                outside == \/ i + 1 >= Len(hs.indices)
                           \/ first >= Len(hs.vertices)
                           \/ second >= Len(hs.vertices)
            IN  march(volume, [st EXCEPT !.ub = @ \/ outside], root,
                      [a \in 1..3 |-> FDiv(direction[a], steps)], steps,
                      [value |-> TangentValue(At(hs.tangents, first,
                                                 g.tangent)),
                       inside |-> first < Len(hs.tangents)], g) } })

voxelize_segments(hs, width, height, depth, g) ==
    The({ The({ Voxelized(volume, st, g)
                : st \in { march_segments(hs, volume, NewSplat(volume), 0,
                                          g) } })
          : volume \in { NewVolume(hs, <<width, height, depth>>) } })

(***************************************************************************)
(* The voxelizer at work: an object with vertices, tangents along the      *)
(* axes and the indices of its strands, whose header holds the box it was  *)
(* constructed with, the box generate_bounding_box computes, or the box of *)
(* the file it was loaded from.                                            *)
(***************************************************************************)
MaxSplat == 2
MaxResolution == 2
MaxCrowd == 257

VoxelTangents == { <<1, 0, 0, 1>>, <<0, -1, 0, 1>> }

Resolutions == (1..MaxResolution) \X (1..MaxResolution) \X (1..MaxResolution)

Boxes == {"constructed", "generated", "loaded"}

\* What the voxelizers find outside their arrays and what the conversions
\* of floats outside the range of the integer type yield.
VoxelGarbage ==
    { [pos |-> 0, quantized |-> 0, index |-> 0, vertex |-> ZeroVec,
       tangent |-> <<0, 0, 0, 1>>],
      [pos |-> -1, quantized |-> -128, index |-> 1, vertex |-> <<2, 1, 3>>,
       tangent |-> <<0, 0, 1, 1>>] }

WithBox(hs, box) ==
    IF box = "generated" THEN generate_bounding_box(hs)
    ELSE IF box = "loaded"
         THEN [hs EXCEPT !.file_header.bounding_box_min = <<1, 1, 1>>,
                         !.file_header.bounding_box_max = <<3, 2, 3>>,
                         !.file_header.field.has_bounding_box = TRUE]
    ELSE hs

VoxelAsset(layout, vertices, tangents, box) ==
    WithBox(generate_indices(
                [GeometryAsset(layout.segments, layout.strand_count,
                               layout.default_segment_count, vertices)
                 EXCEPT !.tangents = tangents]),
            box)

\* MaxCrowd strands of one vertex each, all at one point of the box.
CrowdAsset ==
    WithBox([GeometryAsset(<<>>, MaxCrowd, 0,
                           [i \in 1..MaxCrowd |-> <<2, 1, 3>>])
             EXCEPT !.tangents = [i \in 1..MaxCrowd |-> <<1, 0, 0, 1>>]],
            "loaded")

NoVolume ==
    [volume |-> [resolution |-> <<0, 0, 0>>,
                 bounds |-> get_bounding_box(NewHairStyle),
                 densities |-> <<>>, tangents |-> <<>>],
     pos |-> <<>>, precise_tangents |-> <<>>, hang |-> FALSE, ub |-> FALSE,
     quantization_ub |-> FALSE]

InitVoxel ==
    /\ \/ \E layout \in Layouts, box \in Boxes :
             /\ LayoutVertexCount(layout) <= MaxSplat
             /\ \E vertices \in [1..LayoutVertexCount(layout) -> Points] :
                \E tangents \in [1..LayoutVertexCount(layout)
                                   -> VoxelTangents] :
                   hair_style = VoxelAsset(layout, vertices, tangents, box)
       \/ hair_style = CrowdAsset
    /\ disk = NoFile
    /\ pc = "init"
    /\ pre = NewHairStyle
    /\ saved = [hs |-> NewHairStyle, io |-> "none"]
    /\ arg = <<0, 0, 0>>
    /\ out = NoVolume
    /\ ub = FALSE
    /\ NoEngine

VoxelizeVertices(resolution, g) ==
    /\ pc = "init"
    /\ \E run \in { voxelize_vertices(hair_style, resolution[1],
                                      resolution[2], resolution[3], g) } :
          out' = run /\ ub' = run.ub
    /\ pc' = "voxelize_vertices"
    /\ pre' = hair_style
    /\ arg' = resolution
    /\ UNCHANGED <<hair_style, disk, saved>>
    /\ UNCHANGED engine

VoxelizeSegments(resolution, g) ==
    /\ pc = "init"
    /\ \E run \in { voxelize_segments(hair_style, resolution[1],
                                      resolution[2], resolution[3], g) } :
          out' = run /\ ub' = run.ub
    /\ pc' = "voxelize_segments"
    /\ pre' = hair_style
    /\ arg' = resolution
    /\ UNCHANGED <<hair_style, disk, saved>>
    /\ UNCHANGED engine

NextVoxel ==
    \/ \E resolution \in Resolutions, g \in VoxelGarbage :
          VoxelizeVertices(resolution, g)
    \/ \E resolution \in Resolutions, g \in VoxelGarbage :
          VoxelizeSegments(resolution, g)

SpecVoxel == InitVoxel /\ [][NextVoxel]_vars

(***************************************************************************)
(* Claims about the voxelizer.                                             *)
(***************************************************************************)
\* C11: after voxelize_vertices at a resolution of width x height x depth,
\* all >= 1, on an object whose header holds any box, the voxel index of
\* every vertex lies in [0, width * height * depth), and the density of
\* every voxel is the number of vertices that fell in it or 255, whichever
\* is less.
C11_VoxelBounds ==
    pc = "voxelize_vertices" =>
        /\ Len(out.pos) = get_vertex_count(hair_style)
        /\ \A i \in 1..Len(out.pos) :
              out.pos[i] >= 0 /\ out.pos[i] < VoxelCount(arg)
        /\ \A v \in 1..VoxelCount(arg) :
              out.volume.densities[v]
                 = Min(Cardinality({ i \in 1..Len(out.pos) :
                                       out.pos[i] = v - 1 }), 255)

\* C16: after either voxelizer, a voxel of density 0 has had no division
\* by zero and holds the tangent (0, 0, 0); a voxel of density d > 0 holds
\* in every component the sum of the tangents it received over d, times
\* 127, a value in [-127, 127].
C16_EmptyVoxelZeroTangent ==
    pc \in {"voxelize_vertices", "voxelize_segments"} =>
        \A v \in 1..VoxelCount(arg) :
            LET d == out.volume.densities[v]
                sum == out.precise_tangents[v]
                stored == out.volume.tangents[v]
            IN  IF d = 0
                THEN ~out.quantization_ub /\ stored = <<0, 0, 0, 0>>
                ELSE \A a \in 1..3 :
                        /\ stored[a] = IF sum[a] >= 0
                                       THEN (127 * sum[a]) \div d
                                       ELSE -((127 * (0 - sum[a])) \div d)
                        /\ stored[a] >= -127 /\ stored[a] <= 127

(***************************************************************************)
(* The shading engine (src/src/vkhr/ray_tracer.cc).  A colour channel is   *)
(* carried in thousandths.  The ray tracing library is modelled by its     *)
(* interface: a table of the handles it gave out, with the number of times *)
(* each was released, and for a committed scene what a ray through each    *)
(* pixel of the camera meets.                                              *)
(***************************************************************************)
\* The frame buffer: width * height pixels, row after row.
Image(width, height) ==
    [width |-> width, height |-> height,
     data |-> [k \in 1..(width * height) |-> <<0, 0, 0, 0>>]]

clear(image) == Image(image.width, image.height)

pixel_slot(image, i, j) == j * image.width + i + 1

set_pixel(image, i, j, color) ==
    [image EXCEPT !.data[pixel_slot(image, i, j)] = color]

\* The rows change places, the first with the last.
horizontal_flip(image) ==
    [image EXCEPT !.data =
        [k \in 1..(image.width * image.height) |->
            image.data[pixel_slot(image, (k - 1) % image.width,
                                  image.height - 1
                                      - (k - 1) \div image.width)]]]

\* What the library holds for a handle it gave out.
NewHandle(kind) ==
    [kind |-> kind, released |-> 0, committed |-> FALSE, world |-> <<>>]

NoEmbree == [handles |-> <<>>, misuse |-> FALSE]

\* rtcNewDevice, rtcNewScene: the handle given out is the next number.
rtcNew(em, kind) == [em EXCEPT !.handles = Append(@, NewHandle(kind))]

\* rtcCommitScene: from now on rays are traced against the geometry.
rtcCommitScene(em, scene, world) ==
    [em EXCEPT !.handles[scene].committed = TRUE,
               !.handles[scene].world = world]

IsHandle(em, h, kind) ==
    h >= 1 /\ h <= Len(em.handles) /\ em.handles[h].kind = kind

\* rtcReleaseScene, rtcReleaseDevice: a release of what is no handle of the
\* kind, or of one released before, is a misuse of the library.
rtcRelease(em, h, kind) ==
    IF IsHandle(em, h, kind)
    THEN [em EXCEPT !.handles[h].released = @ + 1,
                    !.misuse = @ \/ em.handles[h].released # 0]
    ELSE [em EXCEPT !.misuse = TRUE]

\* A scene rays can be traced against.
Traceable(em, scene) ==
    /\ IsHandle(em, scene, "scene")
    /\ em.handles[scene].released = 0
    /\ em.handles[scene].committed

\* An object no constructor has run for, and one a destructor has run for.
NoRaytracer ==
    [state |-> "none", device |-> 0, scene |-> 0, shadows_off |-> FALSE,
     back_buffer |-> Image(0, 0), hair_vertices |-> <<>>]

\* Raytracer::Raytracer(camera, hair_style): the object and the library
\* after it.  world is what the rays of the camera meet in the geometry.
Raytracer(em, camera, hs, world) ==
    LET device == Len(em.handles) + 1
        scene == device + 1
    IN  [rt |-> [state |-> "alive", device |-> device, scene |-> scene,
                 shadows_off |-> FALSE,
                 back_buffer |-> clear(Image(camera.width, camera.height)),
                 hair_vertices |-> create_position_thickness_data(hs)],
         em |-> rtcCommitScene(rtcNew(rtcNew(em, "device"), "scene"), scene,
                               world)]

\* Raytracer::~Raytracer
Raytracer_destroy(rt, em) ==
    [rt |-> [rt EXCEPT !.state = "destroyed"],
     em |-> rtcRelease(rtcRelease(em, rt.scene, "scene"), rt.device,
                       "device")]

\* swap(lhs, rhs): the devices change places.
swap(lhs, rhs) ==
    [lhs |-> [lhs EXCEPT !.device = rhs.device],
     rhs |-> [rhs EXCEPT !.device = lhs.device]]

\* Raytracer::Raytracer(Raytracer&&): the new object's members hold what
\* default initialization leaves in them: wild in the handles, no pixels.
Raytracer_move(raytracer_, wild) ==
    swap([NoRaytracer EXCEPT !.state = "alive", !.device = wild.device,
                             !.scene = wild.scene],
         raytracer_)

\* Raytracer::operator=(Raytracer&&)
move_assign(this, raytracer_) == swap(this, raytracer_)

toggle_shadows(rt) == [rt EXCEPT !.shadows_off = ~rt.shadows_off]

\* Ray::Ray: tfar starts at infinity.  rtcOccluded1 sets tfar to -infinity
\* when something lies between tnear and tfar, and leaves it otherwise.
rtcOccluded1(meets) == IF meets.occluded THEN Inf(-1) ELSE Inf(1)

is_occluded(tfar) == FLess(tfar, Fin(0, 1))

occluded_by(meets) == is_occluded(rtcOccluded1(meets))

\* Ray::intersects: rtcIntersect1 sets geomID when the ray hits.
intersects(meets) == meets.hit

\* glm::vec3(0.80f, 0.57f, 0.32f) * 0.40f
hair_color == <<320, 228, 128>>

\* std::clamp(channel, 0.0f, 1.0f) * 255 as a byte.
Channel(c) == (Min(Max(c, 0), 1000) * 255) \div 1000

\* The body of the pixel loop of draw: the image after pixel (i, j).
\* meets.shading is what kajiya_kay returns for the tangent at the hit.
draw_pixel(image, shadows_off, meets, i, j) ==
    IF intersects(meets)
    THEN LET ambient == <<hair_color[1] \div 2, hair_color[2] \div 2,
                          hair_color[3] \div 2, 1000>>
             shading == meets.shading
             color ==
                 IF occluded_by(meets) \/ shadows_off
                 THEN IF shadows_off
                      THEN <<shading[1], shading[2], shading[3], 1000>>
                      ELSE <<ambient[1] + shading[1] \div 2,
                             ambient[2] + shading[2] \div 2,
                             ambient[3] + shading[3] \div 2, ambient[4]>>
                 ELSE ambient
         IN  set_pixel(image, i, j,
                       <<Channel(color[1]), Channel(color[2]),
                         Channel(color[3]), Channel(color[4])>>)
    ELSE image

\* One turn of the parallel loop of draw: the pixels of row j, from i on.
RECURSIVE draw_row(_, _, _, _, _)
draw_row(image, shadows_off, world, j, i) ==
    IF i >= image.width THEN image
    ELSE draw_row(draw_pixel(image, shadows_off,
                             world[pixel_slot(image, i, j)], i, j),
                  shadows_off, world, j, i + 1)

RECURSIVE draw_rows(_, _, _, _)
draw_rows(image, shadows_off, world, j) ==
    IF j >= image.height THEN image
    ELSE draw_rows(draw_row(image, shadows_off, world, j, 0), shadows_off,
                   world, j + 1)

\* What the rays of draw meet: the world of the object's scene.  A scene
\* handle that is none leaves what they meet undefined.
WorldOf(rt, em, wild) ==
    IF Traceable(em, rt.scene) THEN em.handles[rt.scene].world
    ELSE [k \in 1..(rt.back_buffer.width * rt.back_buffer.height) |->
             wild.meets]

\* Raytracer::draw(camera)
draw(rt, em, wild) ==
    [rt EXCEPT !.back_buffer =
        horizontal_flip(draw_rows(clear(rt.back_buffer), rt.shadows_off,
                                  WorldOf(rt, em, wild), 0))]

(***************************************************************************)
(* The shading engine at work.  The objects are the program's variables of *)
(* type Raytracer; pre holds them as they were before the operation that   *)
(* ran last, and arg the variables it ran on.                              *)
(***************************************************************************)
MaxWidth == 2
MaxHeight == 2

Names == {"a", "b"}

Shadings == { <<0, 0, 0>>, <<520, 382, 240>> }

\* What a ray through a pixel meets: nothing, or hair from which the light
\* is or is not hidden.
RayOutcomes ==
    { [hit |-> FALSE, occluded |-> FALSE, shading |-> <<0, 0, 0>>] }
    \cup { [hit |-> TRUE, occluded |-> o, shading |-> s] :
           o \in BOOLEAN, s \in Shadings }

\* What default initialization leaves in a handle (nothing, or what no
\* handle is), and what rays traced against no scene meet.
Wild ==
    { [device |-> 0, scene |-> 0,
       meets |-> [hit |-> FALSE, occluded |-> FALSE, shading |-> <<0, 0, 0>>]],
      [device |-> -1, scene |-> -1,
       meets |-> [hit |-> TRUE, occluded |-> FALSE,
                  shading |-> <<520, 382, 240>>]] }

\* The asset the ray tracers are constructed from.
TracedAsset == FusedAsset(2, FALSE, FALSE, FALSE, FALSE, 42, 0, ZeroVec)

NoRaytracers == [name \in Names |-> NoRaytracer]

Construct(name, camera, world) ==
    /\ raytracer[name].state = "none"
    /\ \E new \in { Raytracer(embree, camera, hair_style, world) } :
          /\ raytracer' = [raytracer EXCEPT ![name] = new.rt]
          /\ embree' = new.em
    /\ pc' = "construct"
    /\ pre' = raytracer
    /\ arg' = <<name, name>>
    /\ ub' = FALSE
    /\ UNCHANGED <<hair_style, disk, saved, out, omp>>

MoveConstruct(to, from, wild) ==
    /\ raytracer[to].state = "none"
    /\ raytracer[from].state = "alive"
    /\ \E moved \in { Raytracer_move(raytracer[from], wild) } :
          raytracer' = [raytracer EXCEPT ![to] = moved.lhs,
                                         ![from] = moved.rhs]
    /\ pc' = "move_construct"
    /\ pre' = raytracer
    /\ arg' = <<to, from>>
    /\ ub' = (wild.device # 0)
    /\ UNCHANGED <<hair_style, disk, saved, out, embree, omp>>

MoveAssign(to, from) ==
    /\ to # from
    /\ raytracer[to].state = "alive"
    /\ raytracer[from].state = "alive"
    /\ \E moved \in { move_assign(raytracer[to], raytracer[from]) } :
          raytracer' = [raytracer EXCEPT ![to] = moved.lhs,
                                         ![from] = moved.rhs]
    /\ pc' = "move_assign"
    /\ pre' = raytracer
    /\ arg' = <<to, from>>
    /\ ub' = FALSE
    /\ UNCHANGED <<hair_style, disk, saved, out, embree, omp>>

Destroy(name) ==
    /\ raytracer[name].state = "alive"
    /\ \E gone \in { Raytracer_destroy(raytracer[name], embree) } :
          /\ raytracer' = [raytracer EXCEPT ![name] = gone.rt]
          /\ embree' = gone.em
    /\ pc' = "destroy"
    /\ pre' = raytracer
    /\ arg' = <<name, name>>
    /\ ub' = (raytracer[name].scene < 0 \/ raytracer[name].device < 0)
    /\ UNCHANGED <<hair_style, disk, saved, out, omp>>

ToggleShadows(name) ==
    /\ raytracer[name].state = "alive"
    /\ raytracer' = [raytracer EXCEPT ![name] = toggle_shadows(@)]
    /\ pc' = "toggle_shadows"
    /\ pre' = raytracer
    /\ arg' = <<name, name>>
    /\ ub' = FALSE
    /\ UNCHANGED <<hair_style, disk, saved, out, embree, omp>>

Draw(name, wild) ==
    /\ raytracer[name].state = "alive"
    /\ raytracer' = [raytracer EXCEPT ![name] = draw(@, embree, wild)]
    /\ pc' = "draw"
    /\ pre' = raytracer
    /\ arg' = <<name, name>>
    /\ ub' = (/\ ~Traceable(embree, raytracer[name].scene)
              /\ raytracer[name].back_buffer.data # <<>>)
    /\ UNCHANGED <<hair_style, disk, saved, out, embree, omp>>

\* One ray tracer, constructed for a camera of any size over any geometry.
InitDraw ==
    /\ hair_style = TracedAsset
    /\ \E width \in 1..MaxWidth, height \in 1..MaxHeight :
       \E world \in [1..(width * height) -> RayOutcomes] :
       \E new \in { Raytracer(NoEmbree, [width |-> width, height |-> height],
                              TracedAsset, world) } :
          /\ raytracer = [NoRaytracers EXCEPT !["a"] = new.rt]
          /\ embree = new.em
    /\ disk = NoFile
    /\ pc = "construct"
    /\ pre = NoRaytracers
    /\ saved = [hs |-> NewHairStyle, io |-> "none"]
    /\ arg = <<"a", "a">>
    /\ out = TRUE
    /\ ub = FALSE
    /\ omp = <<>>

NextDraw ==
    \/ ToggleShadows("a")
    \/ \E wild \in Wild : Draw("a", wild)

SpecDraw == InitDraw /\ [][NextDraw]_vars

\* C12: after draw, a pixel whose ray misses holds the cleared background;
\* a pixel whose ray hits holds, with shadows off, the shading at full
\* weight and, with shadows on, half the albedo alone where the light is
\* hidden from the hit and half the albedo plus half the shading where it
\* is not.
C12_ShadowTest ==
    pc = "draw" =>
        LET rt == raytracer[arg[1]]
            image == rt.back_buffer
            world == embree.handles[rt.scene].world
            albedo == <<320, 228, 128>>
        IN  \A i \in 0..(image.width - 1), j \in 0..(image.height - 1) :
               LET meets == world[j * image.width + i + 1]
                   shown == image.data[(image.height - 1 - j) * image.width
                                           + i + 1]
                   lit == rt.shadows_off \/ ~meets.occluded
                   weight == IF rt.shadows_off THEN 2 ELSE 1
                   expected ==
                      [a \in 1..3 |->
                          (IF rt.shadows_off THEN 0 ELSE albedo[a] \div 2)
                          + (IF lit THEN (weight * meets.shading[a]) \div 2
                             ELSE 0)]
               IN  IF meets.hit
                   THEN shown = <<Channel(expected[1]), Channel(expected[2]),
                                  Channel(expected[3]), 255>>
                   ELSE shown = <<0, 0, 0, 0>>

\* The variables of the program from their declaration to the end of their
\* scope: each is constructed once, from a camera or from another, may be
\* assigned from another, drawn from, and is destroyed once.
MoveWorlds ==
    { <<[hit |-> FALSE, occluded |-> FALSE, shading |-> <<0, 0, 0>>]>>,
      <<[hit |-> TRUE, occluded |-> TRUE, shading |-> <<520, 382, 240>>]>> }

InitMoves ==
    /\ hair_style = TracedAsset
    /\ raytracer = NoRaytracers
    /\ embree = NoEmbree
    /\ disk = NoFile
    /\ pc = "init"
    /\ pre = NoRaytracers
    /\ saved = [hs |-> NewHairStyle, io |-> "none"]
    /\ arg = <<"a", "a">>
    /\ out = TRUE
    /\ ub = FALSE
    /\ omp = <<>>

NextMoves ==
    \/ \E name \in Names, world \in MoveWorlds :
          Construct(name, [width |-> 1, height |-> 1], world)
    \/ \E to \in Names, from \in Names, wild \in Wild :
          MoveConstruct(to, from, wild)
    \/ \E to \in Names, from \in Names : MoveAssign(to, from)
    \/ \E name \in Names, wild \in Wild : Draw(name, wild)
    \/ \E name \in Names : Destroy(name)

SpecMoves == InitMoves /\ [][NextMoves]_vars

\* Every handle a constructor created is released at most once, and once
\* when no object is alive any more.
ReleasedOnce ==
    /\ \A h \in 1..Len(embree.handles) : embree.handles[h].released <= 1
    /\ (\A name \in Names : raytracer[name].state # "alive") =>
          \A h \in 1..Len(embree.handles) : embree.handles[h].released = 1

\* C19: whatever the constructions, moves and destructions, every scene and
\* device handle is released exactly once, by the destructor of the object
\* that holds it last; no destructor releases what was never created or was
\* released before; and after a move the destination holds the device and
\* the committed scene the source held.
C19_Ownership ==
    /\ ReleasedOnce
    /\ ~embree.misuse
    /\ pc \in {"move_construct", "move_assign"} =>
          /\ raytracer[arg[1]].device = pre[arg[2]].device
          /\ raytracer[arg[1]].scene = pre[arg[2]].scene
          /\ Traceable(embree, raytracer[arg[1]].scene)

(***************************************************************************)
(* The parallel loops (#pragma omp parallel for schedule(dynamic)): the    *)
(* rows of draw, the voxels of the two voxelizers and the vertices of the  *)
(* three builders of fused buffers.  The turns of a loop are handed to the *)
(* threads in any order.  omp holds the loop that is running: the turns    *)
(* not yet taken, the array the loop writes, what the loop reads beside    *)
(* the object, for every element of the array the turns that assigned it,  *)
(* the turn taken last, and whether a turn was taken after one that        *)
(* follows it in the loop.                                                 *)
(***************************************************************************)
MaxVoxels == 4

\* A value no turn of a loop assigns.
Unwritten == <<-999, -999, -999, -999>>

NoInput == [densities |-> <<>>, precise_tangents |-> <<>>]

NoLoop ==
    [kind |-> "none", todo |-> {}, output |-> <<>>, input |-> NoInput,
     g |-> The(VoxelGarbage), writers |-> <<>>, last |-> -1,
     inverted |-> FALSE, joined |-> FALSE]

\* The pragma: every turn of the loop is to be taken, none has been.
parallel_for(kind, turns, output, input, g) ==
    [kind |-> kind, todo |-> turns, output |-> output, input |-> input,
     g |-> g, writers |-> [k \in 1..Len(output) |-> {}], last |-> -1,
     inverted |-> FALSE, joined |-> FALSE]

\* The bodies of the loops of the builders: vertex i, counted from 0.
position_thickness(position_thicknesses, hs, i) ==
    [position_thicknesses EXCEPT ![i + 1] =
        <<hs.vertices[i + 1][1], hs.vertices[i + 1][2],
          hs.vertices[i + 1][3],
          IF has_thickness(hs) THEN At(hs.thickness, i, 0)
          ELSE HardcodedThickness>>]

tangent_transparency(tangent_transparency_, hs, i, gt) ==
    [tangent_transparency_ EXCEPT ![i + 1] =
        <<At(hs.tangents, i, gt)[1], At(hs.tangents, i, gt)[2],
          At(hs.tangents, i, gt)[3],
          IF has_transparency(hs) THEN At(hs.transparency, i, 0)
          ELSE get_default_transparency(hs)>>]

color_transparency(color_transparencies, hs, i) ==
    [color_transparencies EXCEPT ![i + 1] =
        LET color_ == IF has_color(hs) THEN At(hs.color, i, ZeroVec)
                      ELSE get_default_color(hs)
        IN  <<color_[1], color_[2], color_[3],
              IF has_transparency(hs) THEN At(hs.transparency, i, 0)
              ELSE get_default_transparency(hs)>>]

\* glm::vec4 { xyz, w } of an element of a fused buffer.
Vec4(element) ==
    <<element[1][1], element[1][2], element[1][3], element[2]>>

Blank(n) == [k \in 1..n |-> <<0, 0, 0, 0>>]

\* One turn of the running loop on the array as it is.
Turn(output, turn) ==
    IF omp.kind = "draw"
    THEN draw_row([raytracer["a"].back_buffer EXCEPT !.data = output],
                  raytracer["a"].shadows_off,
                  embree.handles[raytracer["a"].scene].world, turn, 0).data
    ELSE IF omp.kind \in {"voxelize_vertices", "voxelize_segments"}
    THEN quantize_voxel(output, omp.input, turn + 1, omp.g)
    ELSE IF omp.kind = "create_position_thickness_data"
    THEN position_thickness(output, hair_style, turn)
    ELSE IF omp.kind = "create_tangent_transparency_data"
    THEN tangent_transparency(output, hair_style, turn, omp.g.tangent)
    ELSE color_transparency(output, hair_style, turn)

\* The elements a turn assigns: those it changes in an array of which no
\* element holds a value a turn assigns.
Assigned(turn) ==
    The({ { k \in 1..Len(omp.output) : after[k] # Unwritten } :
          after \in { Turn([n \in 1..Len(omp.output) |-> Unwritten],
                           turn) } })

\* What the loop that ran yields when its turns are taken one after the
\* other from the first, as the methods of the asset and of the ray tracer
\* compute it.
Sequential ==
    IF omp.kind = "draw"
    THEN draw(pre["a"], embree, The(Wild)).back_buffer.data
    ELSE IF omp.kind = "voxelize_vertices"
    THEN voxelize_vertices(hair_style, arg[1], arg[2], arg[3],
                           omp.g).volume.tangents
    ELSE IF omp.kind = "voxelize_segments"
    THEN voxelize_segments(hair_style, arg[1], arg[2], arg[3],
                           omp.g).volume.tangents
    ELSE IF omp.kind = "create_position_thickness_data"
    THEN [k \in 1..get_vertex_count(hair_style) |->
             Vec4(create_position_thickness_data(hair_style)[k])]
    ELSE IF omp.kind = "create_tangent_transparency_data"
    THEN [k \in 1..get_vertex_count(hair_style) |->
             <<create_tangent_transparency_data(hair_style,
                                                omp.g.tangent)[k][1][1],
               create_tangent_transparency_data(hair_style,
                                                omp.g.tangent)[k][1][2],
               create_tangent_transparency_data(hair_style,
                                                omp.g.tangent)[k][1][3],
               create_tangent_transparency_data(hair_style,
                                                omp.g.tangent)[k][2]>>]
    ELSE [k \in 1..get_vertex_count(hair_style) |->
             Vec4(create_color_transparency_data(hair_style)[k])]

Fork(loop, resolution) ==
    /\ pc = "init"
    /\ omp' = loop
    /\ pc' = "fork"
    /\ pre' = raytracer
    /\ arg' = resolution
    /\ UNCHANGED <<hair_style, disk, saved, out, ub, raytracer, embree>>

\* draw: back_buffer.clear() and the loop over the rows.
ForkDraw ==
    /\ raytracer["a"].state = "alive"
    /\ Fork(parallel_for("draw", 0..(raytracer["a"].back_buffer.height - 1),
                         clear(raytracer["a"].back_buffer).data, NoInput,
                         The(VoxelGarbage)),
            <<0, 0, 0>>)

\* voxelize_vertices: the vertices are splatted, the tangents resized and
\* the loop over the voxels begins.
ForkVoxelizeVertices(resolution, g) ==
    /\ pc = "init"
    /\ \E run \in { voxelize_vertices(hair_style, resolution[1],
                                      resolution[2], resolution[3], g) } :
        Fork(parallel_for("voxelize_vertices",
                          0..(Len(run.volume.densities) - 1),
                          Blank(VoxelCount(resolution)),
                          [densities |-> run.volume.densities,
                           precise_tangents |-> run.precise_tangents], g),
             resolution)

\* voxelize_segments: the same after the segments were marched, when the
\* march ends.
ForkVoxelizeSegments(resolution, g) ==
    /\ pc = "init"
    /\ \E run \in { voxelize_segments(hair_style, resolution[1],
                                      resolution[2], resolution[3], g) } :
        /\ ~run.hang
        /\ Fork(parallel_for("voxelize_segments",
                             0..(Len(run.volume.densities) - 1),
                             Blank(VoxelCount(resolution)),
                             [densities |-> run.volume.densities,
                              precise_tangents |-> run.precise_tangents], g),
                resolution)

\* The builders: a buffer of get_vertex_count() elements and the loop over
\* the vertices.
ForkCreatePositionThicknessData ==
    Fork(parallel_for("create_position_thickness_data",
                      0..(get_vertex_count(hair_style) - 1),
                      Blank(get_vertex_count(hair_style)), NoInput,
                      The(VoxelGarbage)),
         <<0, 0, 0>>)

ForkCreateTangentTransparencyData(g) ==
    Fork(parallel_for("create_tangent_transparency_data",
                      0..(get_vertex_count(hair_style) - 1),
                      Blank(get_vertex_count(hair_style)), NoInput, g),
         <<0, 0, 0>>)

ForkCreateColorTransparencyData ==
    Fork(parallel_for("create_color_transparency_data",
                      0..(get_vertex_count(hair_style) - 1),
                      Blank(get_vertex_count(hair_style)), NoInput,
                      The(VoxelGarbage)),
         <<0, 0, 0>>)

\* A thread takes a turn that is left, whichever.
Iterate(turn) ==
    /\ turn \in omp.todo
    /\ \E assigned \in { Assigned(turn) } :
          omp' = [omp EXCEPT
                    !.todo = @ \ {turn},
                    !.output = Turn(omp.output, turn),
                    !.writers = [k \in 1..Len(omp.output) |->
                                    IF k \in assigned
                                    THEN omp.writers[k] \cup {turn}
                                    ELSE omp.writers[k]],
                    !.last = turn,
                    !.inverted = @ \/ turn < omp.last]
    /\ pc' = "iterate"
    /\ UNCHANGED <<hair_style, disk, pre, saved, arg, out, ub, raytracer,
                   embree>>

\* The end of the loop, when no turn is left; draw then flips the image.
Join ==
    /\ omp.kind # "none"
    /\ omp.todo = {}
    /\ ~omp.joined
    /\ omp' = [omp EXCEPT !.joined = TRUE]
    /\ IF omp.kind = "draw"
       THEN \E image \in { horizontal_flip([raytracer["a"].back_buffer
                                            EXCEPT !.data = omp.output]) } :
               /\ raytracer' = [raytracer EXCEPT !["a"].back_buffer = image]
               /\ out' = image.data
       ELSE /\ out' = omp.output
            /\ UNCHANGED raytracer
    /\ pc' = "join"
    /\ UNCHANGED <<hair_style, disk, pre, saved, arg, ub, embree>>

ParallelPoints == { <<0, 0, 0>>, <<2, 1, 3>> }

ParallelOutcomes ==
    { [hit |-> FALSE, occluded |-> FALSE, shading |-> <<0, 0, 0>>],
      [hit |-> TRUE, occluded |-> FALSE, shading |-> <<520, 382, 240>>],
      [hit |-> TRUE, occluded |-> TRUE, shading |-> <<520, 382, 240>>] }

\* What the rays of a camera meet: one thing along the diagonals of the
\* image, another beside them.
ParallelWorld(width, height, on, off) ==
    [k \in 1..(width * height) |->
        IF k % (width + 1) = 1 THEN on ELSE off]

\* An asset in a box with no ray tracer, or the traced asset and a ray
\* tracer constructed from it whose shadows are on or off.
InitParallel ==
    /\ \/ /\ \E layout \in Layouts, box \in {"generated", "loaded"} :
                /\ LayoutVertexCount(layout) \in 1..MaxSplat
                /\ \E vertices \in [1..LayoutVertexCount(layout)
                                      -> ParallelPoints] :
                   \E tangents \in [1..LayoutVertexCount(layout)
                                      -> VoxelTangents] :
                      hair_style = VoxelAsset(layout, vertices, tangents, box)
          /\ raytracer = NoRaytracers
          /\ embree = NoEmbree
       \/ /\ hair_style = TracedAsset
          /\ \E width \in 1..MaxWidth, height \in 1..MaxHeight :
             \E on \in ParallelOutcomes, off \in ParallelOutcomes :
             \E shadows_off \in BOOLEAN :
             \E new \in { Raytracer(NoEmbree,
                                    [width |-> width, height |-> height],
                                    TracedAsset,
                                    ParallelWorld(width, height, on, off)) } :
                /\ raytracer =
                      [NoRaytracers EXCEPT
                          !["a"] = IF shadows_off THEN toggle_shadows(new.rt)
                                   ELSE new.rt]
                /\ embree = new.em
    /\ disk = NoFile
    /\ pc = "init"
    /\ pre = NoRaytracers
    /\ saved = [hs |-> NewHairStyle, io |-> "none"]
    /\ arg = <<0, 0, 0>>
    /\ out = <<>>
    /\ ub = FALSE
    /\ omp = NoLoop

NextParallel ==
    \/ ForkDraw
    \/ \E resolution \in Resolutions, g \in VoxelGarbage :
          /\ VoxelCount(resolution) <= MaxVoxels
          /\ ForkVoxelizeVertices(resolution, g)
    \/ \E resolution \in Resolutions, g \in VoxelGarbage :
          /\ VoxelCount(resolution) <= MaxVoxels
          /\ ForkVoxelizeSegments(resolution, g)
    \/ ForkCreatePositionThicknessData
    \/ \E g \in VoxelGarbage : ForkCreateTangentTransparencyData(g)
    \/ ForkCreateColorTransparencyData
    \/ \E turn \in omp.todo : Iterate(turn)
    \/ Join

SpecParallel == InitParallel /\ [][NextParallel]_vars

\* C13: in every parallel loop (the rows of draw, the voxels of both
\* voxelizers, the vertices of the three builders) no element of the output
\* is assigned by two turns, and in whatever order the turns were taken the
\* loop leaves what the turns taken one after the other from the first
\* leave; what a turn assigns does not depend on the turns taken before it.
C13_RaceFree ==
    omp.kind # "none" =>
        /\ \A k \in 1..Len(omp.output) : Cardinality(omp.writers[k]) <= 1
        /\ \A turn \in omp.todo :
              \E after \in { Turn(omp.output, turn) } :
              \E alone \in { Turn(Blank(Len(omp.output)), turn) } :
                 \A k \in Assigned(turn) : after[k] = alone[k]
        /\ omp.joined => out = Sequential

\* A loop of draw over an image whose rows differ has ended, a row taken
\* before one that precedes it, and every row assigned a pixel.
C13_OutOfOrder ==
    /\ omp.kind = "draw"
    /\ omp.joined
    /\ omp.inverted
    /\ \E k \in 1..Len(out) : out[k] # out[1]
    /\ \A turn \in 0..(raytracer["a"].back_buffer.height - 1) :
          \E k \in 1..Len(out) : omp.writers[k] = {turn}

(***************************************************************************)
(* The sampler and the segment voxelizer on an object of no strands: no    *)
(* segments, a strand count of 0 in the header, no vertices, no indices.   *)
(***************************************************************************)
InitDegenerate ==
    /\ \E default_segment_count \in 0..MaxSegments, seed \in Seeds :
       \E box \in {"constructed", "loaded"} :
          hair_style = WithBox([GeometryAsset(<<>>, 0, default_segment_count,
                                              <<>>)
                                EXCEPT !.seed = seed], box)
    /\ disk = NoFile
    /\ pc = "init"
    /\ pre = NewHairStyle
    /\ saved = [hs |-> NewHairStyle, io |-> "none"]
    /\ arg = <<0, 0, 0>>
    /\ out = NoVolume
    /\ ub = FALSE
    /\ NoEngine

NextDegenerate ==
    \/ \E ratio \in Ratios, g \in Garbage : Reduce(ratio, g)
    \/ \E resolution \in Resolutions, g \in VoxelGarbage :
          VoxelizeSegments(resolution, g)

SpecDegenerate == InitDegenerate /\ [][NextDegenerate]_vars

\* C14: on an object of no strands reduce(r), r in [0, 1], and
\* voxelize_segments read and write no element outside an array; reduce
\* leaves every array empty and voxelize_segments a grid of densities that
\* are all 0.
C14_DegenerateInputs ==
    /\ pc = "reduce" =>
          /\ ~ub
          /\ hair_style.segments = <<>> /\ hair_style.vertices = <<>>
          /\ hair_style.indices = <<>>
          /\ \A a \in Attributes : hair_style[a] = <<>>
    /\ pc = "voxelize_segments" =>
          /\ ~ub
          /\ ~out.hang
          /\ Len(out.volume.densities) = VoxelCount(arg)
          /\ \A v \in 1..VoxelCount(arg) : out.volume.densities[v] = 0

\* C15: after reduce(r), r in [0, 1], the indices are those of the segment
\* list that is left and of nothing else: the pairs (v, v + 1) of its
\* segments in order, twice as many as it has segments, each below the
\* number of vertices that are left.
C15_IndicesAfterReduce ==
    pc = "reduce" =>
        /\ hair_style.indices = ExpectedIndices(hair_style.segments)
        /\ Len(hair_style.indices) = 2 * Sum(hair_style.segments)
        /\ \A i \in 1..Len(hair_style.indices) :
              hair_style.indices[i] < Len(hair_style.vertices)

\* C17: from every state of the generator, the seed zero among them, the
\* strand drawn from a working set of any size is one of the set: the index
\* floor(xorshift64(state) / (2^64 - 1) * remaining) is below remaining;
\* and no turn of the loop of reduce or shuffle drew an index outside the
\* working set.
C17_RandomStrandInRange ==
    /\ \A remaining \in 1..MaxStrands :
          random_strand_of(xorshift64(hair_style.seed), remaining) >= 0
          /\ random_strand_of(xorshift64(hair_style.seed), remaining)
                < remaining
    /\ pc \in {"reduce", "shuffle"} => ~ub

\* The arrays of the sections of a file, and the presence bits as arrays
\* that are not empty would set them.
SectionsHeld(hs) ==
    Bitfield(hs.segments # <<>>, hs.vertices # <<>>, hs.thickness # <<>>,
             hs.transparency # <<>>, hs.color # <<>>, hs.tangents # <<>>,
             hs.indices # <<>>, FALSE)

\* C18: after a load that returns true, on a new object or on one that
\* held arrays, the arrays that are not empty are exactly the sections
\* whose presence bit is set in the file, and what they hold is what the
\* file holds: no array of the object as it was before is left.
C18_LoadReplaces ==
    (pc = "load" /\ out = TRUE) =>
        /\ SectionsHeld(hair_style) =
              [disk.header[1].field EXCEPT !.has_bounding_box = FALSE,
                                           !.future_extension = 0]
        /\ LoadedWholeFile

====
